---- MODULE Spec2Model ----
(***************************************************************************)
(* A model of the pools of fuzzcheck:                                      *)
(*   - UniqueValuesPool  (sensors_and_pools/unique_values_pool.rs)         *)
(*   - TestFailurePool   (sensors_and_pools/test_failure_pool.rs)          *)
(* Each pool is a record whose fields carry the names of the Rust struct   *)
(* fields.  One action models one whole call of a method.  A panic of the  *)
(* Rust code is a state of its own: the call record says `panicked` and    *)
(* the pool holds what the call had written before the panic.  Nothing     *)
(* runs after a panic.                                                     *)
(***************************************************************************)
EXTENDS Integers, Sequences, FiniteSets, TLC

VARIABLES
    uvp,        \* the UniqueValuesPool: complexities, inputs, best_input_for_value, stats
    uvp_call,   \* the last UniqueValuesPool::process call: arguments, pool before, result
    uvp_seen,   \* history: for each (slot, key) the complexities it was observed with
    uvp_calls,  \* number of process calls made so far (also the next input handle)
    tfp,        \* the TestFailurePool: name, inputs
    tfp_call,   \* the last TestFailurePool call: method, arguments, pool before, result
    tfp_min,    \* history: for each failure id the least complexity processed, 0 if none
    TEST_FAILURE,   \* the process-wide slot: Option<TestFailure>
    sensor,         \* the TestFailureSensor: error
    sensor_run,     \* the driver's position in a run, the run number, what
                    \* get_observations returned, and for each failure held the
                    \* run it was written in
    mutator,        \* the mutator under test
    mstate,         \* the value with its cache, the mutation step, the
                    \* arbitrary step, the token of a mutation not yet undone
    mcall,          \* the last call on the mutator: arguments, result, state before
    mhist,          \* history: how the value was made and what it was, what
                    \* ordered_arbitrary returned so far, None results seen
    rec,             \* the RecursiveMutator cycle: the reference counts of its Rc, the
                    \* RecurToMutators, the call in progress
    bitsets,    \* two FixedBitSets: data (the blocks) and length
    bitset_call \* the last FixedBitSet call: arguments, the set before, result

uvp_vars == <<uvp, uvp_call, uvp_seen, uvp_calls>>

tfp_vars == <<tfp, tfp_call, tfp_min>>

sensor_vars == <<TEST_FAILURE, sensor, sensor_run>>

mutator_vars == <<mutator, mstate, mcall, mhist>>

rec_vars == <<rec>>

bitset_vars == <<bitsets, bitset_call>>

vars == <<uvp, uvp_call, uvp_seen, uvp_calls, tfp, tfp_call, tfp_min,
          TEST_FAILURE, sensor, sensor_run, mutator, mstate, mcall, mhist,
          rec,
          bitsets, bitset_call>>

(***************************************************************************)
(* Bounds of the model                                                     *)
(***************************************************************************)
UvpSize == 2                \* `size` given to UniqueValuesPool::new: slots 0 .. size-1
MaxUvpCalls == 3            \* process calls per behaviour
MaxObservations == 2        \* length of one observation list
UvpKeys == {"x", "y"}       \* the key type T
UvpCplxs == {4, 5, 6}       \* the complexities passed to process
UvpName == "uniq"           \* the `name` given to UniqueValuesPool::new

Slots == 0 .. (UvpSize - 1)
Pairs == Slots \X UvpKeys

\* all sequences over S of length at most n
RECURSIVE SeqsUpTo(_, _)
SeqsUpTo(S, n) ==
    IF n = 0 THEN {<<>>}
    ELSE LET shorter == SeqsUpTo(S, n - 1)
         IN  shorter \cup {Append(s, x) : s \in {t \in shorter : Len(t) = n - 1}, x \in S}

Range(s) == {s[i] : i \in DOMAIN s}

EmptyMap == [k \in {} |-> 0]

\* AHashMap::insert: adds the entry or overwrites the one with the same key
MapInsert(m, k, v) == [x \in (DOMAIN m) \cup {k} |-> IF x = k THEN v ELSE m[x]]

(***************************************************************************)
(* Slab<Input<T>>: a vector of records and the list of its free slots.    *)
(* A SlabKey is an index of `storage`.                                     *)
(***************************************************************************)
SlabNew == [storage |-> <<>>, available_slots |-> <<>>]

SlabLive(slab) == (DOMAIN slab.storage) \ Range(slab.available_slots)

SlabLen(slab) == Cardinality(SlabLive(slab))

\* the key insert returns
SlabNextKey(slab) ==
    IF slab.available_slots # <<>>
    THEN slab.available_slots[Len(slab.available_slots)]
    ELSE Len(slab.storage) + 1

SlabInsert(slab, x) ==
    IF slab.available_slots # <<>>
    THEN [storage |-> [slab.storage EXCEPT ![SlabNextKey(slab)] = x],
          available_slots |-> SubSeq(slab.available_slots, 1, Len(slab.available_slots) - 1)]
    ELSE [storage |-> Append(slab.storage, x),
          available_slots |-> slab.available_slots]

SlabRemove(slab, key) ==
    [slab EXCEPT !.available_slots = Append(@, key)]

(***************************************************************************)
(* UniqueValuesPool::new                                                   *)
(***************************************************************************)
UniqueValuesPoolNew ==
    [name |-> UvpName,
     complexities |-> [s \in Slots |-> EmptyMap],
     inputs |-> SlabNew,
     best_input_for_value |-> [s \in Slots |-> EmptyMap],
     stats |-> [name |-> UvpName, size |-> 0]]

(***************************************************************************)
(* UniqueValuesPool::process, first loop: the observations that are new    *)
(* or strictly better than the recorded complexity, in order, repeated     *)
(* pairs kept.                                                             *)
(***************************************************************************)
IsNewOrBetter(pool, obs, complexity) ==
    LET index == obs[1]
        v == obs[2]
    IN  IF v \in DOMAIN pool.complexities[index]
        THEN pool.complexities[index][v] > complexity
        ELSE TRUE

NewObservations(pool, observations, complexity) ==
    SelectSeq(observations, LAMBDA obs : IsNewOrBetter(pool, obs, complexity))

\* the record inserted in the slab: best_for_values starts empty
NewInput(input_id, new_observations) ==
    [best_for_values |-> {},
     data |-> input_id,
     score |-> Len(new_observations)]

(***************************************************************************)
(* One iteration of the second loop of process, on the loop state          *)
(* st = [pool, removed_keys, panicked].                                    *)
(***************************************************************************)
ProcessOne(st, obs, input_key, cplx) ==
    LET counter == obs[1]
        id == obs[2]
        pool1 == [st.pool EXCEPT !.complexities[counter] = MapInsert(@, id, cplx)]
    IN  IF id \in DOMAIN pool1.best_input_for_value[counter]
        THEN LET previous_best_key == pool1.best_input_for_value[counter][id]
                 previous_best == pool1.inputs.storage[previous_best_key]
                 was_present_in_set == <<counter, id>> \in previous_best.best_for_values
                 set1 == previous_best.best_for_values \ {<<counter, id>>}
             IN  IF ~was_present_in_set
                 THEN \* assert!(was_present_in_set) fails
                      [st EXCEPT !.pool = pool1, !.panicked = TRUE]
                 ELSE [pool |-> [pool1 EXCEPT
                                    !.inputs.storage[previous_best_key] =
                                        [@ EXCEPT !.best_for_values = set1,
                                                  !.score = Cardinality(set1)],
                                    !.best_input_for_value[counter][id] = input_key],
                       removed_keys |-> IF set1 = {}
                                        THEN Append(st.removed_keys, previous_best_key)
                                        ELSE st.removed_keys,
                       panicked |-> FALSE]
        ELSE [st EXCEPT !.pool =
                 [pool1 EXCEPT !.best_input_for_value[counter] = MapInsert(@, id, input_key)]]

RECURSIVE ProcessLoop(_, _, _, _)
ProcessLoop(st, new_observations, input_key, cplx) ==
    IF new_observations = <<>> \/ st.panicked
    THEN st
    ELSE ProcessLoop(ProcessOne(st, Head(new_observations), input_key, cplx),
                     Tail(new_observations), input_key, cplx)

RECURSIVE RemoveAll(_, _)
RemoveAll(slab, removed_keys) ==
    IF removed_keys = <<>> THEN slab
    ELSE RemoveAll(SlabRemove(slab, Head(removed_keys)), Tail(removed_keys))

(***************************************************************************)
(* UniqueValuesPool::process as a function of the pool and the arguments:  *)
(* [pool, deltas, panicked].                                               *)
(***************************************************************************)
UvpProcessResult(pool, input_id, observations, complexity) ==
    LET new_observations == NewObservations(pool, observations, complexity)
    IN  IF new_observations = <<>>
        THEN [pool |-> pool, deltas |-> <<>>, panicked |-> FALSE]
        ELSE LET input == NewInput(input_id, new_observations)
                 input_key == SlabNextKey(pool.inputs)
                 pool0 == [pool EXCEPT !.inputs = SlabInsert(@, input)]
                 st == ProcessLoop([pool |-> pool0, removed_keys |-> <<>>, panicked |-> FALSE],
                                   new_observations, input_key, complexity)
             IN  IF st.panicked
                 THEN [pool |-> st.pool, deltas |-> <<>>, panicked |-> TRUE]
                 ELSE LET slab == RemoveAll(st.pool.inputs, st.removed_keys)
                          removed == [i \in DOMAIN st.removed_keys |->
                                         slab.storage[st.removed_keys[i]].data]
                          pool2 == [st.pool EXCEPT !.inputs = slab,
                                                   !.stats.size = SlabLen(slab)]
                      IN  [pool |-> pool2,
                           deltas |-> << [path |-> <<pool.name>>,
                                          add |-> TRUE,
                                          remove |-> removed] >>,
                           panicked |-> FALSE]

NoUvpCall ==
    [made |-> FALSE, input_id |-> 0, observations |-> <<>>, complexity |-> 0,
     pre |-> UniqueValuesPoolNew, deltas |-> <<>>, panicked |-> FALSE]

UvpInit ==
    /\ uvp = UniqueValuesPoolNew
    /\ uvp_call = NoUvpCall
    /\ uvp_seen = [p \in Pairs |-> {}]
    /\ uvp_calls = 0

\* the observation lists of the model: every list of at most MaxObservations pairs
ObservationLists == SeqsUpTo(Pairs, MaxObservations)

\* the lists that name no pair twice (one value per counter and run)
DistinctObservationLists ==
    {s \in ObservationLists : \A i, j \in DOMAIN s : i # j => s[i] # s[j]}

\* one call of process with an observation list of `lists`; the driver hands
\* out a fresh input handle per call
UvpProcess(lists) ==
    /\ ~uvp_call.panicked
    /\ uvp_calls < MaxUvpCalls
    /\ \E observations \in lists, complexity \in UvpCplxs :
          LET input_id == uvp_calls + 1
              r == UvpProcessResult(uvp, input_id, observations, complexity)
          IN  /\ uvp' = r.pool
              /\ uvp_call' = [made |-> TRUE, input_id |-> input_id,
                              observations |-> observations, complexity |-> complexity,
                              pre |-> uvp, deltas |-> r.deltas, panicked |-> r.panicked]
              /\ uvp_seen' = [p \in Pairs |->
                                 IF p \in Range(observations)
                                 THEN uvp_seen[p] \cup {complexity}
                                 ELSE uvp_seen[p]]
              /\ uvp_calls' = uvp_calls + 1

(***************************************************************************)
(* TestFailurePool                                                         *)
(***************************************************************************)
NBR_ARTIFACTS_PER_ERROR_AND_CPLX == 8

MaxTfpInputs == 9           \* inputs the driver's storage can hold
TfpName == "failures"       \* the `name` given to TestFailurePool::new
\* complexities, in units of 0.00001: 7.5, 7.50004 and 10.0
TfpCplxs == {750000, 750004, 1000000}

\* the failures the test function raises: failure 1 is seen with two display
\* strings, failure 2 with one
TestFailures ==
    {[display |-> "a", id |-> 1], [display |-> "b", id |-> 1], [display |-> "b", id |-> 2]}

TfpIds == {e.id : e \in TestFailures}

\* Option<TestFailure>
None == [some |-> FALSE]
Some(x) == [some |-> TRUE, value |-> x]

\* format!("{:.4}", complexity) of a complexity given in units of 0.00001:
\* rounded to the nearest 0.0001 (no complexity of the model is a tie),
\* four digits after the point
Pad4(n) ==
    IF n < 10 THEN "000" \o ToString(n)
    ELSE IF n < 100 THEN "00" \o ToString(n)
    ELSE IF n < 1000 THEN "0" \o ToString(n)
    ELSE ToString(n)

Format4(complexity) ==
    LET r == (complexity + 5) \div 10
    IN  ToString(r \div 10000) \o "." \o Pad4(r % 10000)

TestFailurePoolNew == [name |-> TfpName, inputs |-> <<>>]

Last(s) == s[Len(s)]

\* self.inputs.iter().position(|xs| xs.error.id == error.id): 0 when there is none
RECURSIVE PositionFrom(_, _, _)
PositionFrom(lists, id, i) ==
    IF i > Len(lists) THEN 0
    ELSE IF lists[i].error.id = id THEN i
    ELSE PositionFrom(lists, id, i + 1)

Position(lists, id) == PositionFrom(lists, id, 1)

\* self.inputs.iter().any(|xs| xs.error.display == error.display)
AnyDisplay(lists, display) == \E i \in DOMAIN lists : lists[i].error.display = display

\* RoomInTier with the cap compared by <= (one input too many)
MRoomInTier(pool, least_complex, error) ==
    /\ Len(least_complex.inputs) <= NBR_ARTIFACTS_PER_ERROR_AND_CPLX
    /\ ~AnyDisplay(pool.inputs, error.display)

\* the guard of PositionOfNewInput::ExistingErrorAndCplx
RoomInTier(pool, least_complex, error) ==
    /\ Len(least_complex.inputs) < NBR_ARTIFACTS_PER_ERROR_AND_CPLX
    /\ ~AnyDisplay(pool.inputs, error.display)

\* IsLessComplex that takes every other complexity, also a greater one
MIsLessComplex(least_complex, complexity) == least_complex.cplx # complexity

\* least_complex.cplx > complexity
IsLessComplex(least_complex, complexity) == least_complex.cplx > complexity

\* is_interesting: [kind, idx], kind "None" when the input is not kept
IsInteresting(pool, error, complexity) ==
    LET list_index == Position(pool.inputs, error.id)
    IN  IF list_index # 0
        THEN LET list == pool.inputs[list_index]
             IN  IF list.inputs # <<>>
                 THEN LET least_complex == Last(list.inputs)
                      IN  IF IsLessComplex(least_complex, complexity)
                          THEN [kind |-> "ExistingErrorNewCplx", idx |-> list_index]
                          ELSE IF least_complex.cplx = complexity
                                  /\ RoomInTier(pool, least_complex, error)
                          THEN [kind |-> "ExistingErrorAndCplx", idx |-> list_index]
                          ELSE [kind |-> "None", idx |-> 0]
                 ELSE [kind |-> "ExistingErrorNewCplx", idx |-> list_index]
        ELSE [kind |-> "NewError", idx |-> 0]

\* DeltaPath with the complexity of the class's first tier instead of the input's
MDeltaPath(pool, error, complexity) ==
    LET list_index == Position(pool.inputs, error.id)
    IN  <<pool.name, ToString(error.id),
          Format4(IF list_index # 0 /\ pool.inputs[list_index].inputs # <<>>
                  THEN pool.inputs[list_index].inputs[1].cplx
                  ELSE complexity)>>

\* the path of the delta: name / error.id / complexity with four decimals
DeltaPath(pool, error, complexity) ==
    <<pool.name, ToString(error.id), Format4(complexity)>>

\* the match on the position: the pool with the input stored
\* StoreInput that gives the class the failure of the input it stores
MStoreInput(pool, position, error, input_idx, complexity) ==
    LET tier == [cplx |-> complexity, inputs |-> <<input_idx>>]
    IN  IF position.kind = "NewError"
        THEN [pool EXCEPT !.inputs = Append(@, [error |-> error, inputs |-> <<tier>>])]
        ELSE IF position.kind = "ExistingErrorNewCplx"
        THEN [pool EXCEPT !.inputs[position.idx] =
                              [error |-> error, inputs |-> Append(@.inputs, tier)]]
        ELSE [pool EXCEPT !.inputs[position.idx].inputs[Len(pool.inputs[position.idx].inputs)].inputs
                              = Append(@, input_idx)]

StoreInput(pool, position, error, input_idx, complexity) ==
    LET tier == [cplx |-> complexity, inputs |-> <<input_idx>>]
    IN  IF position.kind = "NewError"
        THEN [pool EXCEPT !.inputs = Append(@, [error |-> error, inputs |-> <<tier>>])]
        ELSE IF position.kind = "ExistingErrorNewCplx"
        THEN [pool EXCEPT !.inputs[position.idx].inputs = Append(@, tier)]
        ELSE [pool EXCEPT !.inputs[position.idx].inputs[Len(pool.inputs[position.idx].inputs)].inputs
                              = Append(@, input_idx)]

\* TestFailurePool::process as a function of the pool and the arguments: [pool, deltas]
TfpProcessResult(pool, input_idx, observations, complexity) ==
    IF ~observations.some
    THEN [pool |-> pool, deltas |-> <<>>]
    ELSE LET error == observations.value
             position == IsInteresting(pool, error, complexity)
         IN  IF position.kind = "None"
             THEN [pool |-> pool, deltas |-> <<>>]
             ELSE [pool |-> StoreInput(pool, position, error, input_idx, complexity),
                   deltas |-> << [path |-> DeltaPath(pool, error, complexity),
                                  add |-> TRUE,
                                  remove |-> <<>>] >>]

\* TestFailurePool::ranked_test_cases: [result, panicked]; on a class without
\* tiers `error.inputs.len() - 1` underflows
\* ComplexityChoice that takes the first tier
MComplexityChoice(error) == 1

\* let complexity_choice = error.inputs.len() - 1, as an index from 1
ComplexityChoice(error) == Len(error.inputs)

RECURSIVE RankedFrom(_, _)
RankedFrom(lists, i) ==
    IF i > Len(lists) THEN [result |-> <<>>, panicked |-> FALSE]
    ELSE LET error == lists[i]
         IN  IF Len(error.inputs) = 0
             THEN [result |-> <<>>, panicked |-> TRUE]
             ELSE LET complexity_choice == ComplexityChoice(error)
                      least_complexity == error.inputs[complexity_choice]
                      here == [k \in DOMAIN least_complexity.inputs |->
                                  <<least_complexity.inputs[k], 10>>]
                      rest == RankedFrom(lists, i + 1)
                  IN  [result |-> here \o rest.result, panicked |-> rest.panicked]

\* weights are in tenths: 10 is 1.0
RankedTestCases(pool) == RankedFrom(pool.inputs, 1)

\* TestFailurePool::stats
TfpStats(pool) == [count |-> Len(pool.inputs)]

\* every input handle held by the pool, in storage order
RECURSIVE Flatten(_)
Flatten(ss) == IF ss = <<>> THEN <<>> ELSE Head(ss) \o Flatten(Tail(ss))

ClassHandles(list) == Flatten([k \in DOMAIN list.inputs |-> list.inputs[k].inputs])

TfpHandles(pool) == Flatten([i \in DOMAIN pool.inputs |-> ClassHandles(pool.inputs[i])])

NoTfpCall ==
    [op |-> "new", input_idx |-> 0, observations |-> None, complexity |-> 0,
     pre |-> TestFailurePoolNew, deltas |-> <<>>, ranked |-> <<>>, panicked |-> FALSE]

TfpInit ==
    /\ tfp = TestFailurePoolNew
    /\ tfp_call = NoTfpCall
    /\ tfp_min = [i \in TfpIds |-> 0]

\* one call of process; the driver passes the next free slot of its storage
\* as the handle, a slot taken only when the input is kept
TfpProcess ==
    /\ ~tfp_call.panicked
    /\ Len(TfpHandles(tfp)) < MaxTfpInputs
    /\ \E observations \in {None} \cup {Some(e) : e \in TestFailures},
          complexity \in TfpCplxs :
          LET input_idx == Len(TfpHandles(tfp)) + 1
              r == TfpProcessResult(tfp, input_idx, observations, complexity)
          IN  /\ tfp' = r.pool
              /\ tfp_call' = [op |-> "process", input_idx |-> input_idx,
                              observations |-> observations, complexity |-> complexity,
                              pre |-> tfp, deltas |-> r.deltas, ranked |-> <<>>,
                              panicked |-> FALSE]
              /\ tfp_min' = IF observations.some
                                /\ (tfp_min[observations.value.id] = 0
                                    \/ complexity < tfp_min[observations.value.id])
                             THEN [tfp_min EXCEPT ![observations.value.id] = complexity]
                             ELSE tfp_min

TfpRankedTestCases ==
    /\ ~tfp_call.panicked
    /\ LET r == RankedTestCases(tfp)
       IN  tfp_call' = [op |-> "ranked_test_cases", input_idx |-> 0,
                        observations |-> None, complexity |-> 0,
                        pre |-> tfp, deltas |-> <<>>, ranked |-> r.result,
                        panicked |-> r.panicked]
    /\ UNCHANGED <<tfp, tfp_min>>

(***************************************************************************)
(* TestFailureSensor and the process-wide slot TEST_FAILURE                *)
(***************************************************************************)
MaxRuns == 4                \* runs of the test function per behaviour

\* TestFailureSensor::default
TestFailureSensorDefault == [error |-> None]

\* StartSlot that leaves the slot as it is
MStartSlot(slot) == slot

\* what start_recording writes to the slot
StartSlot(slot) == None

\* start_recording: [sensor, slot]
StartRecording(self, slot) ==
    [sensor |-> [self EXCEPT !.error = None], slot |-> StartSlot(slot)]

\* stop_recording: self.error = TEST_FAILURE.clone()
StopRecording(self, slot) == [self EXCEPT !.error = slot]

\* get_observations that clones the error
MGetObservations(self) == [sensor |-> self, result |-> self.error]

\* get_observations: std::mem::take(&mut self.error), [sensor, result]
GetObservations(self) ==
    [sensor |-> [self EXCEPT !.error = None], result |-> self.error]

SensorInit ==
    /\ TEST_FAILURE = None
    /\ sensor = TestFailureSensorDefault
    /\ sensor_run = [pc |-> "idle", run |-> 0, observed |-> None, got |-> FALSE,
                     failed |-> FALSE, slot_run |-> 0, error_run |-> 0, observed_run |-> 0]

\* the driver starts run number run + 1
SensorStart ==
    /\ sensor_run.pc = "idle"
    /\ sensor_run.run < MaxRuns
    /\ LET r == StartRecording(sensor, TEST_FAILURE)
       IN  /\ sensor' = r.sensor
           /\ TEST_FAILURE' = r.slot
           /\ sensor_run' = [sensor_run EXCEPT
                                !.pc = "recording", !.run = @ + 1, !.got = FALSE,
                                !.failed = FALSE,
                                !.slot_run = IF r.slot.some THEN @ ELSE 0,
                                !.error_run = 0]

\* the test function fails during the run: the panic handling writes the slot
SensorTestFails ==
    /\ sensor_run.pc = "recording"
    /\ \E e \in TestFailures :
          /\ TEST_FAILURE' = Some(e)
          /\ sensor_run' = [sensor_run EXCEPT !.failed = TRUE, !.slot_run = sensor_run.run]
    /\ UNCHANGED sensor

SensorStop ==
    /\ sensor_run.pc = "recording"
    /\ sensor' = StopRecording(sensor, TEST_FAILURE)
    /\ sensor_run' = [sensor_run EXCEPT !.pc = "stopped", !.error_run = sensor_run.slot_run]
    /\ UNCHANGED TEST_FAILURE

SensorGet ==
    /\ sensor_run.pc = "stopped"
    /\ LET r == GetObservations(sensor)
       IN  /\ sensor' = r.sensor
           /\ sensor_run' = [sensor_run EXCEPT
                                !.pc = "idle", !.observed = r.result, !.got = TRUE,
                                !.observed_run = sensor_run.error_run,
                                !.error_run = 0]
    /\ UNCHANGED TEST_FAILURE

\* The sensor called in any order.  sensor_run then records the last call:
\* the sensor and the slot before it, its result, whether stop_recording ran
\* since the last get_observations or start_recording, and how often the
\* failure in the slot was returned since it was written.
MaxSensorCalls == 5         \* calls of the sensor per behaviour

SensorCalls == IF sensor_run.pc = "free" THEN sensor_run.run ELSE 0

SensorStopped == IF sensor_run.pc = "free" THEN sensor_run.stopped ELSE FALSE

SensorDelivered == IF sensor_run.pc = "free" THEN sensor_run.delivered ELSE 0

SensorCalled(op, result, stopped, delivered) ==
    /\ sensor_run.pc \in {"idle", "free"}
    /\ SensorCalls < MaxSensorCalls
    /\ sensor_run' = [pc |-> "free", run |-> SensorCalls + 1, op |-> op,
                      pre |-> [error |-> sensor.error, slot |-> TEST_FAILURE,
                               stopped |-> SensorStopped],
                      result |-> result, stopped |-> stopped, delivered |-> delivered]

FreeStartRecording ==
    LET r == StartRecording(sensor, TEST_FAILURE)
    IN  /\ SensorCalled("start_recording", None, FALSE, 0)
        /\ sensor' = r.sensor
        /\ TEST_FAILURE' = r.slot

\* the test function fails: the panic handling writes the slot
FreeTestFails ==
    \E e \in TestFailures :
        /\ SensorCalled("test_fails", None, SensorStopped, 0)
        /\ TEST_FAILURE' = Some(e)
        /\ UNCHANGED sensor

FreeStopRecording ==
    /\ SensorCalled("stop_recording", None, TRUE, SensorDelivered)
    /\ sensor' = StopRecording(sensor, TEST_FAILURE)
    /\ UNCHANGED TEST_FAILURE

FreeGetObservations ==
    LET r == GetObservations(sensor)
    IN  /\ SensorCalled("get_observations", r.result, FALSE,
                        IF r.result.some THEN SensorDelivered + 1 ELSE SensorDelivered)
        /\ sensor' = r.sensor
        /\ UNCHANGED TEST_FAILURE

(***************************************************************************)
(* Integer-within-range mutators                                           *)
(*                                                                         *)
(* Machine words are scaled.  The mutation and arbitrary steps, u64 in the *)
(* code, have StepBits bits here, and so have the types written u64 and    *)
(* i64: what is kept is that these types are exactly as wide as the step.  *)
(* u8 and i8 keep their 8 bits and are narrower than the step, as u8..u32  *)
(* and i8..i32 are in the code.  BITS is the real width of the type.       *)
(***************************************************************************)
StepBits == 9               \* bits of a step and of the types as wide as it

StepModulus == 2 ^ StepBits

IntTypes == {"u8", "i8", "u64", "i64"}

Signed(ty) == ty \in {"i8", "i64"}

\* <$name>::BITS
BITS(ty) == IF ty \in {"u8", "i8"} THEN 8 ELSE 64

\* bits of the type as it is represented here
Width(ty) == IF ty \in {"u8", "i8"} THEN 8 ELSE StepBits

Modulus(ty) == 2 ^ Width(ty)

TypeMin(ty) == IF Signed(ty) THEN 0 - (Modulus(ty) \div 2) ELSE 0

TypeMax(ty) == IF Signed(ty) THEN (Modulus(ty) \div 2) - 1 ELSE Modulus(ty) - 1

TypeValues(ty) == TypeMin(ty)..TypeMax(ty)

\* x as $name_unsigned
AsUnsigned(ty, x) == x % Modulus(ty)

\* a cast that keeps the number of the unsigned type
MAsName(ty, x) == x

\* x as $name, for x of the unsigned companion type
AsName(ty, x) ==
    IF Signed(ty) /\ x > TypeMax(ty) THEN x - Modulus(ty) ELSE x

\* a.wrapping_add(b) in type ty
WrappingAdd(ty, a, b) == AsName(ty, (a + b) % Modulus(ty))

\* a.wrapping_sub(b) in type ty
WrappingSub(ty, a, b) == AsName(ty, (a - b) % Modulus(ty))

\* step.wrapping_add(1) for a step
StepWrappingAdd(step, n) == (step + n) % StepModulus

\* binary search order of the values low..=high: the midpoint first, then
\* the midpoints of the two halves in turn
RECURSIVE binary_search_arbitrary(_, _, _)
binary_search_arbitrary(low, high, step) ==
    LET next == low + ((high - low) \div 2)
    IN  IF low + 1 >= high
        THEN IF step % 2 = 0 THEN high ELSE low
        ELSE IF step = 0
        THEN next
        ELSE IF step % 2 = 1
        THEN binary_search_arbitrary(next + 1, high, step \div 2)
        ELSE binary_search_arbitrary(low, next - 1, (step - 1) \div 2)

\* $name_mutator::new(start..=end); the mutator, or a panic
WithinRangeNew(ty, start, end) ==
    IF ~(start <= end)
    THEN [panicked |-> TRUE]
    ELSE [panicked |-> FALSE, kind |-> "int", ty |-> ty, start_range |-> start,
          len_range |-> AsUnsigned(ty, WrappingSub(ty, end, start))]

\* the bounds of a RangeBounds
Included(b) == [bound |-> "Included", b |-> b]

Excluded(b) == [bound |-> "Excluded", b |-> b]

Unbounded == [bound |-> "Unbounded"]

\* let start = match range.start_bound(); the value, or the assert_ne! failing
StartBound(ty, start_bound) ==
    CASE start_bound.bound = "Included" -> [panicked |-> FALSE, value |-> start_bound.b]
      [] start_bound.bound = "Excluded" ->
            IF start_bound.b = TypeMax(ty)
            THEN [panicked |-> TRUE]
            ELSE [panicked |-> FALSE, value |-> start_bound.b + 1]
      [] start_bound.bound = "Unbounded" -> [panicked |-> FALSE, value |-> TypeMin(ty)]

\* an end bound that takes an excluded end as it is
MEndBound(ty, end_bound) ==
    CASE end_bound.bound = "Included" -> [panicked |-> FALSE, value |-> end_bound.b]
      [] end_bound.bound = "Excluded" ->
            IF end_bound.b = TypeMin(ty)
            THEN [panicked |-> TRUE]
            ELSE [panicked |-> FALSE, value |-> end_bound.b]
      [] end_bound.bound = "Unbounded" -> [panicked |-> FALSE, value |-> TypeMax(ty)]

\* let end = match range.end_bound(); the value, or the assert_ne! failing
EndBound(ty, end_bound) ==
    CASE end_bound.bound = "Included" -> [panicked |-> FALSE, value |-> end_bound.b]
      [] end_bound.bound = "Excluded" ->
            IF end_bound.b = TypeMin(ty)
            THEN [panicked |-> TRUE]
            ELSE [panicked |-> FALSE, value |-> end_bound.b - 1]
      [] end_bound.bound = "Unbounded" -> [panicked |-> FALSE, value |-> TypeMax(ty)]

\* $name_mutator::new(range) for any RangeBounds; the mutator, or a panic
IntNew(ty, start_bound, end_bound) ==
    LET start == StartBound(ty, start_bound)
    IN  IF start.panicked
        THEN [panicked |-> TRUE]
        ELSE LET end == EndBound(ty, end_bound)
             IN  IF end.panicked
                 THEN [panicked |-> TRUE]
                 ELSE WithinRangeNew(ty, start.value, end.value)

\* the last value of the range the rng draws from
RangeEnd(m) == WrappingAdd(m.ty, m.start_range, AsName(m.ty, m.len_range))

\* the values rng.$name(start..=end) can return
RngValues(m) == m.start_range..RangeEnd(m)

INITIAL_MUTATION_STEP == 0

IntDefaultArbitraryStep(m) == 0

IntDefaultMutationStep(m, value, cache) == INITIAL_MUTATION_STEP

\* Cache = ()
Unit == "()"

IntValidateValue(m, value) == Some(Unit)

IntMaxComplexity(m) == BITS(m.ty)

RECURSIVE Log2Ceil(_)
\* the least k with 2^k >= n
Log2Ceil(n) == IF n <= 1 THEN 0 ELSE 1 + Log2Ceil((n + 1) \div 2)

\* global_search_space_complexity: the log-size of the values of the range
IntGlobalSearchSpaceComplexity(m) == Log2Ceil(m.len_range + 1)

IntMinComplexity(m) == BITS(m.ty)

\* complexity off by one
MIntComplexity(m, value, cache) == BITS(m.ty) + 1

IntComplexity(m, value, cache) == BITS(m.ty)

\* an exhausted ordered_arbitrary that starts again
MArbitraryStepAtEnd(step) == 0

\* the step an exhausted ordered_arbitrary leaves
ArbitraryStepAtEnd(step) == step

\* an exhausted ordered_mutate that starts again
MMutationStepAtEnd(step) == 0

\* the step an exhausted ordered_mutate leaves
MutationStepAtEnd(step) == step

\* ordered_arbitrary: [step, result]
IntOrderedArbitrary(m, step, max_cplx) ==
    IF max_cplx < IntMinComplexity(m)
    THEN [step |-> step, result |-> None]
    ELSE IF step > m.len_range
    THEN [step |-> ArbitraryStepAtEnd(step), result |-> None]
    ELSE LET result == binary_search_arbitrary(0, m.len_range, step)
         IN  [step |-> StepWrappingAdd(step, 1),
              result |-> Some([value |-> WrappingAdd(m.ty, m.start_range, AsName(m.ty, result)),
                               cache |-> Unit,
                               cplx |-> BITS(m.ty)])]

\* random_arbitrary, rnd the value the rng returns
IntRandomArbitrary(m, max_cplx, rnd) ==
    [value |-> rnd, cache |-> Unit, cplx |-> BITS(m.ty)]

\* a token that is not the value
MIntToken(value) == value + 1

\* the token ordered_mutate and random_mutate return for a value
IntToken(value) == value

\* ordered_mutate: [value, cache, step, result]
IntOrderedMutate(m, value, cache, step, max_cplx) ==
    IF max_cplx < IntMinComplexity(m)
    THEN [value |-> value, cache |-> cache, step |-> step, result |-> None]
    ELSE IF step > m.len_range
    THEN [value |-> value, cache |-> cache, step |-> MutationStepAtEnd(step), result |-> None]
    ELSE LET token == IntToken(value)
             result == binary_search_arbitrary(0, m.len_range, step)
         IN  [value |-> WrappingAdd(m.ty, m.start_range, AsName(m.ty, result)),
              cache |-> cache,
              step |-> StepWrappingAdd(step, 1),
              result |-> Some([token |-> token, cplx |-> BITS(m.ty)])]

\* random_mutate: [value, cache, result]
IntRandomMutate(m, value, cache, max_cplx, rnd) ==
    [value |-> rnd, cache |-> cache,
     result |-> [token |-> IntToken(value), cplx |-> BITS(m.ty)]]

\* unmutate: [value, cache]
IntUnmutate(m, value, cache, t) == [value |-> t, cache |-> cache]

\* crossover_mutate
\* crossover_mutate that takes the first sub-value of the provider
MIntCrossoverMutate(m, value, cache, subvalue_provider, max_cplx, rnd) ==
    IF subvalue_provider # <<>>
    THEN IntRandomMutate(m, value, cache, max_cplx, subvalue_provider[1])
    ELSE IntRandomMutate(m, value, cache, max_cplx, rnd)

IntCrossoverMutate(m, value, cache, subvalue_provider, max_cplx, rnd) ==
    IntRandomMutate(m, value, cache, max_cplx, rnd)

(***************************************************************************)
(* MapMutator and AndMapMutator over an integer-within-range mutator       *)
(***************************************************************************)
\* the map closure of the MapMutator: From -> To, here doubling
MapFn(from_value) == 2 * from_value

\* the parse closure of the MapMutator: To -> Option<From>, the inverse of
\* MapFn where there is one
ParseFn(ty, to_value) ==
    IF to_value % 2 = 0 /\ (to_value \div 2) \in TypeValues(ty)
    THEN Some(to_value \div 2)
    ELSE None

\* the map closure of the AndMapMutator: Fn(&From, &mut To), the new To
AndMapFn(from_value, to_value) == 2 * from_value

\* MapMutator::new(mutator, parse, map)
MapMutatorNew(inner) == [kind |-> "map", mutator |-> inner]

\* AndMapMutator::new(mutator, map, storage)
AndMapMutatorNew(inner, storage) ==
    [kind |-> "andmap", mutator |-> inner, storage_to |-> storage]

\* the parse closure of a MapMutator whose inner mutator is a MapMutator:
\* its From is the To of the inner one, which holds every double
ParseToFn(to_value) ==
    IF to_value % 2 = 0 THEN Some(to_value \div 2) ELSE None

\* (self.parse)(to_value)
MapParse(m, to_value) ==
    IF m.mutator.kind = "int"
    THEN ParseFn(m.mutator.ty, to_value)
    ELSE ParseToFn(to_value)

RECURSIVE ValidateValue(_, _)

\* validate_value that takes the parsed value without asking the inner mutator
MMapValidateValue(m, to_value) ==
    LET parsed == MapParse(m, to_value)
    IN  IF ~parsed.some
        THEN None
        ELSE LET from_cache == ValidateValue(m.mutator, parsed.value)
             IN  Some([from_value |-> parsed.value,
                       from_cache |-> IF from_cache.some THEN from_cache.value ELSE Unit])

MapValidateValue(m, to_value) ==
    LET parsed == MapParse(m, to_value)
    IN  IF ~parsed.some
        THEN None
        ELSE LET from_cache == ValidateValue(m.mutator, parsed.value)
             IN  IF ~from_cache.some
                 THEN None
                 ELSE Some([from_value |-> parsed.value, from_cache |-> from_cache.value])

MapGlobalSearchSpaceComplexity(m) == IntGlobalSearchSpaceComplexity(m.mutator)

MapComplexity(m, value, cache) ==
    IntComplexity(m.mutator, cache.from_value, cache.from_cache)

MapOrderedArbitrary(m, step, max_cplx) ==
    LET r == IntOrderedArbitrary(m.mutator, step, max_cplx)
    IN  IF ~r.result.some
        THEN [step |-> r.step, result |-> None]
        ELSE [step |-> r.step,
              result |-> Some([value |-> MapFn(r.result.value.value),
                               cache |-> [from_value |-> r.result.value.value,
                                          from_cache |-> r.result.value.cache],
                               cplx |-> r.result.value.cplx])]

MapRandomArbitrary(m, max_cplx, rnd) ==
    LET r == IntRandomArbitrary(m.mutator, max_cplx, rnd)
    IN  [value |-> MapFn(r.value),
         cache |-> [from_value |-> r.value, from_cache |-> r.cache],
         cplx |-> r.cplx]

\* ordered_mutate that advances the step when the inner mutator returns None
MMapOrderedMutate(m, value, cache, step, max_cplx) ==
    LET r == IntOrderedMutate(m.mutator, cache.from_value, cache.from_cache, step, max_cplx)
    IN  IF ~r.result.some
        THEN [value |-> value,
              cache |-> [from_value |-> r.value, from_cache |-> r.cache],
              step |-> StepWrappingAdd(r.step, 1), result |-> None]
        ELSE [value |-> MapFn(r.value),
              cache |-> [from_value |-> r.value, from_cache |-> r.cache],
              step |-> r.step, result |-> r.result]

MapOrderedMutate(m, value, cache, step, max_cplx) ==
    LET r == IntOrderedMutate(m.mutator, cache.from_value, cache.from_cache, step, max_cplx)
    IN  IF ~r.result.some
        THEN [value |-> value,
              cache |-> [from_value |-> r.value, from_cache |-> r.cache],
              step |-> r.step, result |-> None]
        ELSE [value |-> MapFn(r.value),
              cache |-> [from_value |-> r.value, from_cache |-> r.cache],
              step |-> r.step, result |-> r.result]

MapRandomMutate(m, value, cache, max_cplx, rnd) ==
    LET r == IntRandomMutate(m.mutator, cache.from_value, cache.from_cache, max_cplx, rnd)
    IN  [value |-> MapFn(r.value),
         cache |-> [from_value |-> r.value, from_cache |-> r.cache],
         result |-> r.result]

\* the To value unmutate leaves, given the value before and the restored From
MMapUnmutateTo(value, from_value) == value

MapUnmutateTo(value, from_value) == MapFn(from_value)

MapUnmutate(m, value, cache, t) ==
    LET r == IntUnmutate(m.mutator, cache.from_value, cache.from_cache, t)
    IN  [value |-> MapUnmutateTo(value, r.value),
         cache |-> [from_value |-> r.value, from_cache |-> r.cache]]

\* crossover_mutate that leaves the To value as it was
MMapCrossoverMutate(m, value, cache, subvalue_provider, max_cplx, rnd) ==
    LET r == IntCrossoverMutate(m.mutator, cache.from_value, cache.from_cache, subvalue_provider, max_cplx, rnd)
    IN  [value |-> value,
         cache |-> [from_value |-> r.value, from_cache |-> r.cache],
         result |-> r.result]

MapCrossoverMutate(m, value, cache, subvalue_provider, max_cplx, rnd) ==
    LET r == IntCrossoverMutate(m.mutator, cache.from_value, cache.from_cache, subvalue_provider, max_cplx, rnd)
    IN  [value |-> MapFn(r.value),
         cache |-> [from_value |-> r.value, from_cache |-> r.cache],
         result |-> r.result]

\* AndMapMutator: the value is the pair [to, from], the cache the inner one
AndMapValidateValue(m, value) == IntValidateValue(m.mutator, value.from)

AndMapGlobalSearchSpaceComplexity(m) == IntGlobalSearchSpaceComplexity(m.mutator)

AndMapComplexity(m, value, cache) == IntComplexity(m.mutator, value.from, cache)

AndMapOrderedArbitrary(m, step, max_cplx) ==
    LET r == IntOrderedArbitrary(m.mutator, step, max_cplx)
    IN  IF ~r.result.some
        THEN [step |-> r.step, result |-> None]
        ELSE [step |-> r.step,
              result |-> Some([value |-> [to |-> AndMapFn(r.result.value.value, m.storage_to),
                                          from |-> r.result.value.value],
                               cache |-> r.result.value.cache,
                               cplx |-> r.result.value.cplx])]

AndMapRandomArbitrary(m, max_cplx, rnd) ==
    LET r == IntRandomArbitrary(m.mutator, max_cplx, rnd)
    IN  [value |-> [to |-> AndMapFn(r.value, m.storage_to), from |-> r.value],
         cache |-> r.cache,
         cplx |-> r.cplx]

\* ordered_mutate that adds a bit of complexity for the To value
MAndMapOrderedMutate(m, value, cache, step, max_cplx) ==
    LET r == IntOrderedMutate(m.mutator, value.from, cache, step, max_cplx)
    IN  IF ~r.result.some
        THEN [value |-> [to |-> value.to, from |-> r.value],
              cache |-> r.cache, step |-> r.step, result |-> None]
        ELSE [value |-> [to |-> AndMapFn(r.value, value.to), from |-> r.value],
              cache |-> r.cache, step |-> r.step,
              result |-> Some([token |-> r.result.value.token,
                               cplx |-> r.result.value.cplx + 1])]

AndMapOrderedMutate(m, value, cache, step, max_cplx) ==
    LET r == IntOrderedMutate(m.mutator, value.from, cache, step, max_cplx)
    IN  IF ~r.result.some
        THEN [value |-> [to |-> value.to, from |-> r.value],
              cache |-> r.cache, step |-> r.step, result |-> None]
        ELSE [value |-> [to |-> AndMapFn(r.value, value.to), from |-> r.value],
              cache |-> r.cache, step |-> r.step, result |-> r.result]

AndMapRandomMutate(m, value, cache, max_cplx, rnd) ==
    LET r == IntRandomMutate(m.mutator, value.from, cache, max_cplx, rnd)
    IN  [value |-> [to |-> AndMapFn(r.value, value.to), from |-> r.value],
         cache |-> r.cache, result |-> r.result]

AndMapUnmutate(m, value, cache, t) ==
    LET r == IntUnmutate(m.mutator, value.from, cache, t)
    IN  [value |-> [to |-> value.to, from |-> r.value], cache |-> r.cache]

AndMapCrossoverMutate(m, value, cache, subvalue_provider, max_cplx, rnd) ==
    LET r == IntCrossoverMutate(m.mutator, value.from, cache, subvalue_provider, max_cplx, rnd)
    IN  [value |-> [to |-> AndMapFn(r.value, value.to), from |-> r.value],
         cache |-> r.cache, result |-> r.result]

(***************************************************************************)
(* BoxMutator<T, M> over Box<T>, and Box<M> as a mutator over T            *)
(***************************************************************************)
\* Box::new(value)
BoxNew(value) == [boxed |-> value]

\* the T a &Box<T> or &mut Box<T> derefs to
Deref(value) == value.boxed

\* BoxMutator::new(mutator)
BoxMutatorNew(inner) == [kind |-> "box", mutator |-> inner]

\* Box::new(mutator), used as a mutator
BoxedMutatorNew(inner) == [kind |-> "boxm", mutator |-> inner]

BoxDefaultArbitraryStep(m) == IntDefaultArbitraryStep(m.mutator)

BoxValidateValue(m, value) == IntValidateValue(m.mutator, Deref(value))

BoxMaxComplexity(m) == IntMaxComplexity(m.mutator)

BoxMinComplexity(m) == IntMinComplexity(m.mutator)

BoxComplexity(m, value, cache) == IntComplexity(m.mutator, Deref(value), cache)

BoxOrderedArbitrary(m, step, max_cplx) ==
    LET r == IntOrderedArbitrary(m.mutator, step, max_cplx)
    IN  IF r.result.some
        THEN [step |-> r.step,
              result |-> Some([value |-> BoxNew(r.result.value.value),
                               cache |-> r.result.value.cache,
                               cplx |-> r.result.value.cplx])]
        ELSE [step |-> r.step, result |-> None]

BoxRandomArbitrary(m, max_cplx, rnd) ==
    LET r == IntRandomArbitrary(m.mutator, max_cplx, rnd)
    IN  [value |-> BoxNew(r.value), cache |-> r.cache, cplx |-> r.cplx]

\* ordered_mutate that does not pass the step on
MBoxOrderedMutate(m, value, cache, step, max_cplx) ==
    LET r == IntOrderedMutate(m.mutator, Deref(value), cache, step, max_cplx)
    IN  [value |-> [boxed |-> r.value], cache |-> r.cache, step |-> step,
         result |-> r.result]

BoxOrderedMutate(m, value, cache, step, max_cplx) ==
    LET r == IntOrderedMutate(m.mutator, Deref(value), cache, step, max_cplx)
    IN  [value |-> [boxed |-> r.value], cache |-> r.cache, step |-> r.step,
         result |-> r.result]

BoxRandomMutate(m, value, cache, max_cplx, rnd) ==
    LET r == IntRandomMutate(m.mutator, Deref(value), cache, max_cplx, rnd)
    IN  [value |-> [boxed |-> r.value], cache |-> r.cache, result |-> r.result]

BoxUnmutate(m, value, cache, t) ==
    LET r == IntUnmutate(m.mutator, Deref(value), cache, t)
    IN  [value |-> [boxed |-> r.value], cache |-> r.cache]

\* impl Mutator<T> for Box<M>: every method is self.as_ref()'s
BoxedDefaultArbitraryStep(m) == IntDefaultArbitraryStep(m.mutator)

BoxedValidateValue(m, value) == IntValidateValue(m.mutator, value)

BoxedMaxComplexity(m) == IntMaxComplexity(m.mutator)

BoxedMinComplexity(m) == IntMinComplexity(m.mutator)

BoxedComplexity(m, value, cache) == IntComplexity(m.mutator, value, cache)

BoxedOrderedArbitrary(m, step, max_cplx) == IntOrderedArbitrary(m.mutator, step, max_cplx)

BoxedRandomArbitrary(m, max_cplx, rnd) == IntRandomArbitrary(m.mutator, max_cplx, rnd)

BoxedOrderedMutate(m, value, cache, step, max_cplx) ==
    IntOrderedMutate(m.mutator, value, cache, step, max_cplx)

BoxedRandomMutate(m, value, cache, max_cplx, rnd) ==
    IntRandomMutate(m.mutator, value, cache, max_cplx, rnd)

BoxedUnmutate(m, value, cache, t) == IntUnmutate(m.mutator, value, cache, t)

(***************************************************************************)
(* RecurToMutator as a mutator: its arbitrary step                         *)
(*                                                                         *)
(* The weak reference is that of a live RecursiveMutator, so upgrade()     *)
(* returns the mutator in the Rc, here an integer-within-range mutator.    *)
(***************************************************************************)
\* RecursingArbitraryStep::Default
Default == [tag |-> "Default"]

\* RecursingArbitraryStep::Initialized(inner_step)
Initialized(inner_step) == [tag |-> "Initialized", inner_step |-> inner_step]

\* RecurToMutator::from(reference), reference.upgrade() being inner
RecurToMutatorFrom(inner) == [kind |-> "recurto", mutator |-> inner]

RecurToDefaultArbitraryStep(m) == Default

RecurToMinComplexity(m) == 0

\* ordered_arbitrary whose first call stores the inner step it started from
MRecurToOrderedArbitrary(m, step, max_cplx) ==
    IF step.tag = "Default"
    THEN LET inner_step == IntDefaultArbitraryStep(m.mutator)
             r == IntOrderedArbitrary(m.mutator, inner_step, max_cplx)
         IN  [step |-> Initialized(inner_step), result |-> r.result]
    ELSE LET r == IntOrderedArbitrary(m.mutator, step.inner_step, max_cplx)
         IN  [step |-> Initialized(r.step), result |-> r.result]

RecurToOrderedArbitrary(m, step, max_cplx) ==
    IF step.tag = "Default"
    THEN LET inner_step == IntDefaultArbitraryStep(m.mutator)
             r == IntOrderedArbitrary(m.mutator, inner_step, max_cplx)
         IN  [step |-> Initialized(r.step), result |-> r.result]
    ELSE LET r == IntOrderedArbitrary(m.mutator, step.inner_step, max_cplx)
         IN  [step |-> Initialized(r.step), result |-> r.result]

(***************************************************************************)
(* The Mutator trait, dispatched on the kind of mutator                    *)
(***************************************************************************)
\* the integer-within-range mutator at the bottom of m
Inner(m) == IF m.kind = "int" THEN m ELSE m.mutator

DefaultArbitraryStep(m) ==
    IF m.kind = "recurto"
    THEN RecurToDefaultArbitraryStep(m)
    ELSE IntDefaultArbitraryStep(Inner(m))

DefaultMutationStep(m, value, cache) == INITIAL_MUTATION_STEP

MinComplexity(m) ==
    IF m.kind = "recurto"
    THEN RecurToMinComplexity(m)
    ELSE IntMinComplexity(Inner(m))

MaxComplexity(m) == IntMaxComplexity(Inner(m))

ValidateValue(m, value) ==
    CASE m.kind = "int" -> IntValidateValue(m, value)
      [] m.kind = "map" -> MapValidateValue(m, value)
      [] m.kind = "andmap" -> AndMapValidateValue(m, value)
      [] m.kind = "box" -> BoxValidateValue(m, value)
      [] m.kind = "boxm" -> BoxedValidateValue(m, value)

Complexity(m, value, cache) ==
    CASE m.kind = "int" -> IntComplexity(m, value, cache)
      [] m.kind = "map" -> MapComplexity(m, value, cache)
      [] m.kind = "andmap" -> AndMapComplexity(m, value, cache)
      [] m.kind = "box" -> BoxComplexity(m, value, cache)
      [] m.kind = "boxm" -> BoxedComplexity(m, value, cache)

OrderedArbitrary(m, step, max_cplx) ==
    CASE m.kind = "int" -> IntOrderedArbitrary(m, step, max_cplx)
      [] m.kind = "map" -> MapOrderedArbitrary(m, step, max_cplx)
      [] m.kind = "andmap" -> AndMapOrderedArbitrary(m, step, max_cplx)
      [] m.kind = "box" -> BoxOrderedArbitrary(m, step, max_cplx)
      [] m.kind = "boxm" -> BoxedOrderedArbitrary(m, step, max_cplx)
      [] m.kind = "recurto" -> RecurToOrderedArbitrary(m, step, max_cplx)

RandomArbitrary(m, max_cplx, rnd) ==
    CASE m.kind = "int" -> IntRandomArbitrary(m, max_cplx, rnd)
      [] m.kind = "map" -> MapRandomArbitrary(m, max_cplx, rnd)
      [] m.kind = "andmap" -> AndMapRandomArbitrary(m, max_cplx, rnd)
      [] m.kind = "box" -> BoxRandomArbitrary(m, max_cplx, rnd)
      [] m.kind = "boxm" -> BoxedRandomArbitrary(m, max_cplx, rnd)

OrderedMutate(m, value, cache, step, max_cplx) ==
    CASE m.kind = "int" -> IntOrderedMutate(m, value, cache, step, max_cplx)
      [] m.kind = "map" -> MapOrderedMutate(m, value, cache, step, max_cplx)
      [] m.kind = "andmap" -> AndMapOrderedMutate(m, value, cache, step, max_cplx)
      [] m.kind = "box" -> BoxOrderedMutate(m, value, cache, step, max_cplx)
      [] m.kind = "boxm" -> BoxedOrderedMutate(m, value, cache, step, max_cplx)

RandomMutate(m, value, cache, max_cplx, rnd) ==
    CASE m.kind = "int" -> IntRandomMutate(m, value, cache, max_cplx, rnd)
      [] m.kind = "map" -> MapRandomMutate(m, value, cache, max_cplx, rnd)
      [] m.kind = "andmap" -> AndMapRandomMutate(m, value, cache, max_cplx, rnd)
      [] m.kind = "box" -> BoxRandomMutate(m, value, cache, max_cplx, rnd)
      [] m.kind = "boxm" -> BoxedRandomMutate(m, value, cache, max_cplx, rnd)

CrossoverMutate(m, value, cache, subvalue_provider, max_cplx, rnd) ==
    CASE m.kind = "int" -> IntCrossoverMutate(m, value, cache, subvalue_provider, max_cplx, rnd)
      [] m.kind = "map" -> MapCrossoverMutate(m, value, cache, subvalue_provider, max_cplx, rnd)
      [] m.kind = "andmap" -> AndMapCrossoverMutate(m, value, cache, subvalue_provider, max_cplx, rnd)

Unmutate(m, value, cache, t) ==
    CASE m.kind = "int" -> IntUnmutate(m, value, cache, t)
      [] m.kind = "map" -> MapUnmutate(m, value, cache, t)
      [] m.kind = "andmap" -> AndMapUnmutate(m, value, cache, t)
      [] m.kind = "box" -> BoxUnmutate(m, value, cache, t)
      [] m.kind = "boxm" -> BoxedUnmutate(m, value, cache, t)

(***************************************************************************)
(* A mutator driven through the Mutator trait                              *)
(***************************************************************************)
\* max_cplx arguments: below, at and above the complexity of the type
MaxCplxs(m) ==
    {IntMinComplexity(Inner(m)) - 1, IntMinComplexity(Inner(m)), IntMinComplexity(Inner(m)) + 1}

\* values ordered_arbitrary returns per behaviour
MaxArbitraryCalls == StepModulus + 2

NoMutatorCall == [op |-> "none"]

\* no value yet: the steps are the default ones
MutatorStart(m) ==
    /\ mutator = m
    /\ mstate = [cur |-> None, step |-> INITIAL_MUTATION_STEP,
                 arb_step |-> DefaultArbitraryStep(m), token |-> None]
    /\ mcall = NoMutatorCall
    /\ mhist = [origin |-> "none", original |-> None, n_ordered |-> 0,
                seen |-> {}, n_some |-> 0,
                arb_exhausted |-> FALSE, mut_none |-> FALSE, mut_exhausted |-> FALSE]

\* the state after a new value with its cache was made: a fresh mutation step
WithNewValue(vc, origin) ==
    /\ mstate' = [mstate EXCEPT !.cur = Some(vc),
                                !.step = DefaultMutationStep(mutator, vc.value, vc.cache),
                                !.token = None]
    /\ mhist' = [mhist EXCEPT !.origin = origin, !.original = Some(vc), !.n_ordered = 0,
                              !.mut_none = FALSE, !.mut_exhausted = FALSE]

DoOrderedArbitrary ==
    /\ ~mstate.token.some
    /\ mhist.n_some < MaxArbitraryCalls
    /\ \E max_cplx \in MaxCplxs(mutator) :
          LET r == OrderedArbitrary(mutator, mstate.arb_step, max_cplx)
              exhausted == ~r.result.some /\ max_cplx >= MinComplexity(mutator)
              vc == [value |-> r.result.value.value, cache |-> r.result.value.cache]
          IN  /\ mcall' = [op |-> "ordered_arbitrary", max_cplx |-> max_cplx,
                           result |-> r.result, pre |-> [cur |-> mstate.cur, step |-> mstate.step, arb_step |-> mstate.arb_step],
                           pre_seen |-> mhist.seen, pre_n_some |-> mhist.n_some,
                           pre_exhausted |-> mhist.arb_exhausted]
              /\ IF r.result.some
                 THEN /\ mstate' = [mstate EXCEPT
                                       !.cur = Some(vc), !.arb_step = r.step,
                                       !.step = DefaultMutationStep(mutator, vc.value, vc.cache)]
                      /\ mhist' = [mhist EXCEPT
                                       !.origin = "arbitrary", !.original = Some(vc),
                                       !.n_ordered = 0, !.mut_none = FALSE,
                                       !.mut_exhausted = FALSE,
                                       !.seen = @ \cup {vc.value}, !.n_some = @ + 1]
                 ELSE /\ mstate' = [mstate EXCEPT !.arb_step = r.step]
                      /\ mhist' = [mhist EXCEPT !.arb_exhausted = @ \/ exhausted]
    /\ UNCHANGED mutator

DoRandomArbitrary ==
    /\ ~mstate.token.some
    /\ \E max_cplx \in MaxCplxs(mutator), rnd \in RngValues(Inner(mutator)) :
          LET r == RandomArbitrary(mutator, max_cplx, rnd)
              vc == [value |-> r.value, cache |-> r.cache]
          IN  /\ mcall' = [op |-> "random_arbitrary", max_cplx |-> max_cplx,
                           result |-> Some(r), pre |-> [cur |-> mstate.cur, step |-> mstate.step, arb_step |-> mstate.arb_step]]
              /\ WithNewValue(vc, "arbitrary")
    /\ UNCHANGED mutator

\* the values handed to validate_value: the ends of the range and the values
\* next to it
IntCandidates(m) ==
    {m.start_range - 1, m.start_range, RangeEnd(m), RangeEnd(m) + 1} \cap TypeValues(m.ty)

\* the integer-within-range mutator at the bottom of a tower of mutators
RECURSIVE Bottom(_)
Bottom(m) == IF m.kind = "int" THEN m ELSE Bottom(m.mutator)

RECURSIVE Candidates(_)
Candidates(m) ==
    CASE m.kind = "int" -> IntCandidates(m)
      [] m.kind = "map" ->
            {MapFn(v) : v \in Candidates(m.mutator)}
                \cup {MapFn(Bottom(m).start_range) + 1}
      [] m.kind = "andmap" ->
            {[to |-> AndMapFn(v, m.storage_to), from |-> v] : v \in IntCandidates(m.mutator)}
      [] m.kind = "box" -> {BoxNew(v) : v \in IntCandidates(m.mutator)}
      [] m.kind = "boxm" -> IntCandidates(m.mutator)

DoValidateValue ==
    /\ ~mstate.token.some
    /\ \E v \in Candidates(mutator) :
          LET r == ValidateValue(mutator, v)
          IN  /\ mcall' = [op |-> "validate_value", value |-> v, result |-> r, pre |-> [cur |-> mstate.cur, step |-> mstate.step, arb_step |-> mstate.arb_step]]
              /\ IF r.some
                 THEN WithNewValue([value |-> v, cache |-> r.value], "validate")
                 ELSE UNCHANGED <<mstate, mhist>>
    /\ UNCHANGED mutator

DoOrderedMutate ==
    /\ mstate.cur.some
    /\ ~mstate.token.some
    /\ \E max_cplx \in MaxCplxs(mutator) :
          LET cur == mstate.cur.value
              r == OrderedMutate(mutator, cur.value, cur.cache, mstate.step, max_cplx)
          IN  /\ mcall' = [op |-> "ordered_mutate", max_cplx |-> max_cplx,
                           result |-> r.result, pre |-> [cur |-> mstate.cur, step |-> mstate.step, arb_step |-> mstate.arb_step],
                           pre_none |-> mhist.mut_none,
                           pre_exhausted |-> mhist.mut_exhausted]
              /\ mstate' = [mstate EXCEPT
                               !.cur = Some([value |-> r.value, cache |-> r.cache]),
                               !.step = r.step,
                               !.token = IF r.result.some THEN Some(r.result.value.token) ELSE None]
              /\ mhist' = [mhist EXCEPT
                               !.n_ordered = IF r.result.some THEN @ + 1 ELSE @,
                               !.mut_none = @ \/ ~r.result.some,
                               !.mut_exhausted =
                                   @ \/ (~r.result.some /\ max_cplx >= MinComplexity(mutator))]
    /\ UNCHANGED mutator

DoRandomMutate ==
    /\ mstate.cur.some
    /\ ~mstate.token.some
    /\ \E max_cplx \in MaxCplxs(mutator), rnd \in RngValues(Inner(mutator)) :
          LET cur == mstate.cur.value
              r == RandomMutate(mutator, cur.value, cur.cache, max_cplx, rnd)
          IN  /\ mcall' = [op |-> "random_mutate", max_cplx |-> max_cplx,
                           result |-> Some(r.result), pre |-> [cur |-> mstate.cur, step |-> mstate.step, arb_step |-> mstate.arb_step]]
              /\ mstate' = [mstate EXCEPT
                               !.cur = Some([value |-> r.value, cache |-> r.cache]),
                               !.token = Some(r.result.token)]
    /\ UNCHANGED <<mutator, mhist>>

\* the sub-value providers: an empty one and one holding a value of the type
SubValueProviders(m) == {<<>>, <<Inner(m).start_range>>}

DoCrossoverMutate ==
    /\ mstate.cur.some
    /\ ~mstate.token.some
    /\ \E max_cplx \in MaxCplxs(mutator), rnd \in RngValues(Inner(mutator)),
          subvalue_provider \in SubValueProviders(mutator) :
          LET cur == mstate.cur.value
              r == CrossoverMutate(mutator, cur.value, cur.cache, subvalue_provider, max_cplx, rnd)
          IN  /\ mcall' = [op |-> "crossover_mutate", max_cplx |-> max_cplx,
                           subvalue_provider |-> subvalue_provider, rnd |-> rnd,
                           result |-> Some(r.result), pre |-> [cur |-> mstate.cur, step |-> mstate.step, arb_step |-> mstate.arb_step]]
              /\ mstate' = [mstate EXCEPT
                               !.cur = Some([value |-> r.value, cache |-> r.cache]),
                               !.token = Some(r.result.token)]
    /\ UNCHANGED <<mutator, mhist>>

\* unmutate with the token of the mutation before
DoUnmutate ==
    /\ mstate.cur.some
    /\ mstate.token.some
    /\ LET cur == mstate.cur.value
           r == Unmutate(mutator, cur.value, cur.cache, mstate.token.value)
       IN  /\ mcall' = [op |-> "unmutate", result |-> None, token |-> mstate.token.value,
                        pre |-> [cur |-> mstate.cur, step |-> mstate.step, arb_step |-> mstate.arb_step],
                        mutated_by |-> mcall.op, before |-> mcall.pre.cur]
           /\ mstate' = [mstate EXCEPT
                            !.cur = Some([value |-> r.value, cache |-> r.cache]),
                            !.token = None]
    /\ UNCHANGED <<mutator, mhist>>

\* the mutators whose ordered_arbitrary is run to exhaustion
ArbitraryMutators ==
    { WithinRangeNew("u8", 10, 12),
      WithinRangeNew("u8", TypeMin("u8"), TypeMax("u8")),
      WithinRangeNew("i8", TypeMin("i8"), TypeMax("i8")),
      WithinRangeNew("i8", -2, 3),
      WithinRangeNew("u64", TypeMin("u64"), TypeMax("u64")),
      WithinRangeNew("i64", TypeMin("i64"), TypeMax("i64")),
      WithinRangeNew("u64", TypeMax("u64") - 2, TypeMax("u64")),
      WithinRangeNew("i64", -1, 1) }

\* the integer mutators that are mutated, alone and wrapped
SmallMutators ==
    { WithinRangeNew("u8", 10, 12),
      WithinRangeNew("i8", -1, 0),
      WithinRangeNew("u64", TypeMax("u64") - 1, TypeMax("u64")),
      WithinRangeNew("i64", TypeMin("i64"), TypeMin("i64")) }

MutatedMutators ==
    SmallMutators
        \cup {MapMutatorNew(m) : m \in SmallMutators}
        \cup {AndMapMutatorNew(m, 0) : m \in SmallMutators}

\* the mutator of the behaviours that are about the pools and the sensor
MutatorInit == MutatorStart(WithinRangeNew("u8", 10, 12))

(***************************************************************************)
(* RecursiveMutator and RecurToMutator: the Rc cycle                       *)
(***************************************************************************)
MaxRecurTo == 2             \* points of recursion data_fn puts in the mutator
MaxRecursion == 3           \* RecurToMutator calls nested in one operation

\* the methods of RecursiveMutator that go to the mutator in the Rc
DelegatedMethods ==
    {"default_arbitrary_step", "validate_value", "min_complexity", "complexity",
     "ordered_arbitrary", "random_arbitrary", "ordered_mutate", "random_mutate",
     "unmutate"}

\* the methods of RecurToMutator that upgrade the weak reference
UpgradingMethods ==
    {"validate_value", "complexity", "ordered_arbitrary", "random_arbitrary",
     "ordered_mutate", "random_mutate", "unmutate"}

\* Weak::upgrade: Some exactly while a strong handle exists
Upgrade(r) == r.strong > 0

\* before RecursiveMutator::new
RecInit ==
    rec = [phase |-> "unbuilt", strong |-> 0, recur_tos |-> 0, outside |-> FALSE,
           origin |-> "none", method |-> "none", depth |-> 0,
           step |-> "Default", panicked |-> FALSE]

\* Rc::new_cyclic starts: the allocation has no strong handle yet, data_fn runs
RecursiveNewBegin ==
    /\ rec.phase = "unbuilt"
    /\ rec' = [rec EXCEPT !.phase = "building"]

\* data_fn: RecurToMutator::from(&weak) clones the weak reference
RecurToFrom ==
    /\ rec.phase = "building"
    /\ ~rec.panicked
    /\ rec.recur_tos < MaxRecurTo
    /\ rec' = [rec EXCEPT !.recur_tos = @ + 1]

\* a new that does not keep its handle
MRecursiveNew(r) == [r EXCEPT !.phase = "alive", !.strong = 0]

\* RecursiveMutator::new returns: the struct holds the one Rc
RecursiveNew(r) == [r EXCEPT !.phase = "alive", !.strong = 1]

RecursiveNewEnd ==
    /\ rec.phase = "building"
    /\ ~rec.panicked
    /\ rec' = RecursiveNew(rec)

\* a method of RecurToMutator: self.reference.upgrade().unwrap() and the call
\* through the upgraded Rc, which lives until the call returns
RecurToMethod(r, method) ==
    IF method \notin UpgradingMethods
    THEN r
    ELSE IF ~Upgrade(r)
    THEN [r EXCEPT !.panicked = TRUE, !.method = method]
    ELSE [r EXCEPT !.strong = @ + 1, !.depth = @ + 1, !.method = method,
                   !.step = IF method = "ordered_arbitrary" THEN "Initialized" ELSE @]

\* data_fn calls a method of the RecurToMutator it has just made
RecurToCallInDataFn ==
    /\ rec.phase = "building"
    /\ ~rec.panicked
    /\ rec.recur_tos > 0
    /\ \E method \in UpgradingMethods :
          rec' = RecurToMethod([rec EXCEPT !.origin = "data_fn"], method)

\* an operation starts at the RecursiveMutator
RecursiveCall ==
    /\ rec.phase = "alive"
    /\ rec.origin = "none"
    /\ ~rec.panicked
    /\ \E method \in DelegatedMethods :
          rec' = [rec EXCEPT !.origin = "RecursiveMutator", !.method = method]

\* the mutator in the Rc reaches a point of recursion
RecurToCall ==
    /\ rec.origin \in {"RecursiveMutator", "RecurToMutator"}
    /\ ~rec.panicked
    /\ rec.recur_tos > 0
    /\ rec.depth < MaxRecursion
    /\ \E method \in UpgradingMethods \cup {"default_arbitrary_step", "min_complexity"} :
          rec' = RecurToMethod(rec, method)

\* a RecurToMutator method returns: the upgraded Rc is dropped
RecurToReturn ==
    /\ rec.depth > 0
    /\ ~rec.panicked
    /\ rec' = [rec EXCEPT !.depth = @ - 1, !.strong = @ - 1]

\* the operation returns to its caller
RecursiveReturn ==
    /\ rec.origin \in {"RecursiveMutator", "RecurToMutator"}
    /\ rec.depth = 0
    /\ ~rec.panicked
    /\ rec' = [rec EXCEPT !.origin = "none", !.method = "none"]

\* a RecurToMutator is made outside the cycle, from Rc::downgrade of the
\* public field mutator
RecurToOutside ==
    /\ rec.phase = "alive"
    /\ rec.origin = "none"
    /\ ~rec.outside
    /\ rec' = [rec EXCEPT !.outside = TRUE]

\* the RecursiveMutator is dropped: the last strong handle goes
RecursiveDrop ==
    /\ rec.phase = "alive"
    /\ rec.origin = "none"
    /\ rec' = [rec EXCEPT !.phase = "dropped", !.strong = @ - 1, !.recur_tos = 0]

\* an operation starts at the RecurToMutator kept outside the cycle
RecurToOutsideCall ==
    /\ rec.outside
    /\ rec.origin = "none"
    /\ ~rec.panicked
    /\ \E method \in UpgradingMethods :
          rec' = RecurToMethod([rec EXCEPT !.origin = "RecurToMutator"], method)

(***************************************************************************)
(* FixedBitSet                                                             *)
(*                                                                         *)
(* A Block (u64) is the set of the positions 0..63 of its one bits.        *)
(* count_ones accumulates in a u32; the sets here hold far fewer than 2^32 *)
(* bits, so the sum is the plain one.                                      *)
(***************************************************************************)
BlockBits == 64             \* const BITS: usize = 64
MaxBits == 130              \* the largest length a set is made with or grown to

div_rem(x, d) == <<x \div d, x % d>>

\* let (mut blocks, rem) = div_rem(bits, BITS); blocks += (rem > 0) as usize
Blocks(bits) ==
    LET dr == div_rem(bits, BlockBits)
    IN  dr[1] + (IF dr[2] > 0 THEN 1 ELSE 0)

\* FixedBitSet::new()
BitsetNew == [data |-> <<>>, length |-> 0]

\* vec![0; blocks]
ZeroBlocks(blocks) == [k \in 1..blocks |-> {}]

WithCapacity(bits) == [data |-> ZeroBlocks(Blocks(bits)), length |-> bits]

\* Vec::resize(new_len, value)
Resize(data, new_len, value) ==
    [k \in 1..new_len |-> IF k <= Len(data) THEN data[k] ELSE value]

\* grow that starts again from zeroed blocks
MGrow(s, bits) ==
    IF bits > s.length
    THEN [data |-> ZeroBlocks(Blocks(bits)), length |-> bits]
    ELSE s

Grow(s, bits) ==
    IF bits > s.length
    THEN [data |-> Resize(s.data, Blocks(bits), {}), length |-> bits]
    ELSE s

BitsetLen(s) == s.length

Contains(s, bit) ==
    LET dr == div_rem(bit, BlockBits)
    IN  IF dr[1] + 1 > Len(s.data)
        THEN FALSE
        ELSE dr[2] \in s.data[dr[1] + 1]

Clear(s) == [s EXCEPT !.data = ZeroBlocks(Len(s.data))]

\* insert that asserts the bit to be inside the allocated blocks
MInsert(s, bit) ==
    IF ~(bit < Len(s.data) * BlockBits)
    THEN [panicked |-> TRUE, set |-> s]
    ELSE LET dr == div_rem(bit, BlockBits)
         IN  [panicked |-> FALSE,
              set |-> [s EXCEPT !.data[dr[1] + 1] = @ \cup {dr[2]}]]

\* the set after insert(bit), or the assert! failing
Insert(s, bit) ==
    IF ~(bit < s.length)
    THEN [panicked |-> TRUE, set |-> s]
    ELSE LET dr == div_rem(bit, BlockBits)
         IN  [panicked |-> FALSE,
              set |-> [s EXCEPT !.data[dr[1] + 1] = @ \cup {dr[2]}]]

\* the set after put(bit) and the previous value, or the assert! failing
Put(s, bit) ==
    IF ~(bit < s.length)
    THEN [panicked |-> TRUE, set |-> s]
    ELSE LET dr == div_rem(bit, BlockBits)
             word == s.data[dr[1] + 1]
         IN  [panicked |-> FALSE, prev |-> dr[2] \in word,
              set |-> [s EXCEPT !.data[dr[1] + 1] = word \cup {dr[2]}]]

\* the set after toggle(bit), or the assert! failing
Toggle(s, bit) ==
    IF ~(bit < s.length)
    THEN [panicked |-> TRUE, set |-> s]
    ELSE LET dr == div_rem(bit, BlockBits)
             word == s.data[dr[1] + 1]
         IN  [panicked |-> FALSE,
              set |-> [s EXCEPT !.data[dr[1] + 1] =
                            (word \ {dr[2]}) \cup ({dr[2]} \ word)]]

RECURSIVE SumOnes(_, _)
\* the sum of block.count_ones() over the first n blocks
SumOnes(data, n) ==
    IF n = 0 THEN 0 ELSE SumOnes(data, n - 1) + Cardinality(data[n])

\* count_ones that counts the blocks that hold a one
MCountOnes(s) == Cardinality({k \in 1..Len(s.data) : s.data[k] # {}})

CountOnes(s) == SumOnes(s.data, Len(s.data))

\* Block::trailing_zeros of a block that is not 0
TrailingZeros(block) == CHOOSE r \in block : \A i \in block : r <= i

\* FixedBitSet::ones(): the iterator before its first next()
OnesIter(s) ==
    IF Len(s.data) > 0
    THEN [bitset |-> Head(s.data), block_idx |-> 0, remaining_blocks |-> Tail(s.data)]
    ELSE [bitset |-> {}, block_idx |-> 0, remaining_blocks |-> <<>>]

RECURSIVE OnesNext(_)
\* Ones::next(): the item and the iterator after it
OnesNext(it) ==
    IF it.bitset = {}
    THEN IF it.remaining_blocks = <<>>
         THEN [item |-> None, it |-> it]
         ELSE OnesNext([bitset |-> it.remaining_blocks[1],
                        remaining_blocks |-> Tail(it.remaining_blocks),
                        block_idx |-> it.block_idx + 1])
    ELSE LET r == TrailingZeros(it.bitset)
         IN  [item |-> Some(it.block_idx * BlockBits + r),
              it |-> [it EXCEPT !.bitset = @ \ {r}]]

RECURSIVE Collect(_)
\* the items of the iterator, until it returns None
Collect(it) ==
    LET n == OnesNext(it)
    IN  IF n.item.some THEN <<n.item.value>> \o Collect(n.it) ELSE <<>>

\* bitset.ones().collect()
Ones(s) == Collect(OnesIter(s))

\* for (x, y) in x.iter_mut().zip(y.iter()) { *x = F(*x, *y) }
ZipInto(x, y, F(_, _)) ==
    [k \in 1..Len(x) |-> IF k <= Len(y) THEN F(x[k], y[k]) ELSE x[k]]

BlockOr(x, y) == x \cup y

BlockAnd(x, y) == x \cap y

BlockAndNot(x, y) == x \ y

BlockXor(x, y) == (x \ y) \cup (y \ x)

UnionWith(s, other) ==
    LET g == IF other.length >= s.length THEN Grow(s, other.length) ELSE s
    IN  [g EXCEPT !.data = ZipInto(g.data, other.data, BlockOr)]

\* intersect_with that leaves the blocks past the end of other as they are
MIntersectWith(s, other) ==
    [s EXCEPT !.data = ZipInto(s.data, other.data, BlockAnd)]

IntersectWith(s, other) ==
    LET zipped == ZipInto(s.data, other.data, BlockAnd)
        mn == IF Len(s.data) <= Len(other.data) THEN Len(s.data) ELSE Len(other.data)
    IN  [s EXCEPT !.data = [k \in 1..Len(zipped) |-> IF k > mn THEN {} ELSE zipped[k]]]

DifferenceWith(s, other) ==
    [s EXCEPT !.data = ZipInto(s.data, other.data, BlockAndNot)]

SymmetricDifferenceWith(s, other) ==
    LET g == IF other.length >= s.length THEN Grow(s, other.length) ELSE s
    IN  [g EXCEPT !.data = ZipInto(g.data, other.data, BlockXor)]

\* the data of the set that is not longer, self when the lengths are equal
Short(self, other) == IF self.length <= other.length THEN self.data ELSE other.data

Long(self, other) == IF self.length <= other.length THEN other.data ELSE self.data

\* &self & &other that starts from a clone of the long set
MBitAnd(self, other) ==
    [data |-> ZipInto(Long(self, other), Short(self, other), BlockAnd),
     length |-> IF self.length <= other.length THEN self.length ELSE other.length]

\* &self & &other
BitAnd(self, other) ==
    [data |-> ZipInto(Short(self, other), Long(self, other), BlockAnd),
     length |-> IF self.length <= other.length THEN self.length ELSE other.length]

\* &self | &other
BitOr(self, other) ==
    [data |-> ZipInto(Long(self, other), Short(self, other), BlockOr),
     length |-> IF self.length >= other.length THEN self.length ELSE other.length]

\* &self ^ &other
BitXor(self, other) ==
    [data |-> ZipInto(Long(self, other), Short(self, other), BlockXor),
     length |-> IF self.length >= other.length THEN self.length ELSE other.length]

\* the lengths sets are made with and grown to
BitsetLengths == {0, 1, BlockBits + 1, MaxBits}

\* the bits that are inserted, put and toggled
BitIndices == {0, BlockBits - 1, BlockBits, MaxBits - 1}

Sets == {1, 2}

Other(t) == 3 - t

BitsetInit ==
    /\ bitsets = [t \in Sets |-> BitsetNew]
    /\ bitset_call = [op |-> "none", panicked |-> FALSE]

\* a call on set t that leaves it as post: the call is recorded with the
\* set before it
BitsetCalled(t, op, bit, post, result, panicked) ==
    /\ ~bitset_call.panicked
    /\ bitsets' = [bitsets EXCEPT ![t] = post]
    /\ bitset_call' = [op |-> op, target |-> t, bit |-> bit, pre |-> bitsets[t],
                       result |-> result, panicked |-> panicked]

DoWithCapacity ==
    \E t \in Sets : \E bits \in BitsetLengths :
        BitsetCalled(t, "with_capacity", bits, WithCapacity(bits), None, FALSE)

DoGrow ==
    \E t \in Sets : \E bits \in BitsetLengths :
        BitsetCalled(t, "grow", bits, Grow(bitsets[t], bits), None, FALSE)

DoClear ==
    \E t \in Sets : BitsetCalled(t, "clear", 0, Clear(bitsets[t]), None, FALSE)

DoInsert ==
    \E t \in Sets : \E bit \in BitIndices :
        LET r == Insert(bitsets[t], bit)
        IN  BitsetCalled(t, "insert", bit, r.set, None, r.panicked)

DoPut ==
    \E t \in Sets : \E bit \in BitIndices :
        LET r == Put(bitsets[t], bit)
        IN  BitsetCalled(t, "put", bit, r.set,
                         IF r.panicked THEN None ELSE Some(r.prev), r.panicked)

DoToggle ==
    \E t \in Sets : \E bit \in BitIndices :
        LET r == Toggle(bitsets[t], bit)
        IN  BitsetCalled(t, "toggle", bit, r.set, None, r.panicked)

DoCountOnes ==
    \E t \in Sets :
        BitsetCalled(t, "count_ones", 0, bitsets[t], Some(CountOnes(bitsets[t])), FALSE)

DoOnes ==
    \E t \in Sets :
        BitsetCalled(t, "ones", 0, bitsets[t], Some(Ones(bitsets[t])), FALSE)

DoUnionWith ==
    \E t \in Sets :
        BitsetCalled(t, "union_with", 0, UnionWith(bitsets[t], bitsets[Other(t)]),
                     None, FALSE)

DoIntersectWith ==
    \E t \in Sets :
        BitsetCalled(t, "intersect_with", 0,
                     IntersectWith(bitsets[t], bitsets[Other(t)]), None, FALSE)

DoDifferenceWith ==
    \E t \in Sets :
        BitsetCalled(t, "difference_with", 0,
                     DifferenceWith(bitsets[t], bitsets[Other(t)]), None, FALSE)

DoSymmetricDifferenceWith ==
    \E t \in Sets :
        BitsetCalled(t, "symmetric_difference_with", 0,
                     SymmetricDifferenceWith(bitsets[t], bitsets[Other(t)]), None, FALSE)

\* set t = &set t & &other
DoBitAnd ==
    \E t \in Sets :
        BitsetCalled(t, "bitand", 0, BitAnd(bitsets[t], bitsets[Other(t)]), None, FALSE)

DoBitOr ==
    \E t \in Sets :
        BitsetCalled(t, "bitor", 0, BitOr(bitsets[t], bitsets[Other(t)]), None, FALSE)

DoBitXor ==
    \E t \in Sets :
        BitsetCalled(t, "bitxor", 0, BitXor(bitsets[t], bitsets[Other(t)]), None, FALSE)

PoolsInit == UvpInit /\ TfpInit /\ SensorInit /\ RecInit /\ BitsetInit

Init == PoolsInit /\ MutatorInit

\* process calls whose observations name each pair at most once
UvpNext == UvpProcess(DistinctObservationLists) /\ UNCHANGED <<tfp_vars, sensor_vars, mutator_vars, rec_vars, bitset_vars>>

SpecUVP == Init /\ [][UvpNext]_vars

\* process called with any observation list, also one that names a pair twice
UvpAnyNext == UvpProcess(ObservationLists) /\ UNCHANGED <<tfp_vars, sensor_vars, mutator_vars, rec_vars, bitset_vars>>

SpecUVPAny == Init /\ [][UvpAnyNext]_vars

TfpNext ==
    \/ TfpProcess /\ UNCHANGED <<uvp_vars, sensor_vars, mutator_vars, rec_vars, bitset_vars>>
    \/ TfpRankedTestCases /\ UNCHANGED <<uvp_vars, sensor_vars, mutator_vars, rec_vars, bitset_vars>>

SpecTFP == Init /\ [][TfpNext]_vars

\* runs of the driver: start_recording, the test function, stop_recording,
\* get_observations
SensorNext ==
    \/ SensorStart /\ UNCHANGED <<uvp_vars, tfp_vars, mutator_vars, rec_vars, bitset_vars>>
    \/ SensorTestFails /\ UNCHANGED <<uvp_vars, tfp_vars, mutator_vars, rec_vars, bitset_vars>>
    \/ SensorStop /\ UNCHANGED <<uvp_vars, tfp_vars, mutator_vars, rec_vars, bitset_vars>>
    \/ SensorGet /\ UNCHANGED <<uvp_vars, tfp_vars, mutator_vars, rec_vars, bitset_vars>>

SpecSensor == Init /\ [][SensorNext]_vars

\* ordered_arbitrary called again and again on one mutator
ArbitraryInit == PoolsInit /\ \E m \in ArbitraryMutators : MutatorStart(m)

ArbitraryNext == DoOrderedArbitrary /\ UNCHANGED <<uvp_vars, tfp_vars, sensor_vars, rec_vars, bitset_vars>>

SpecArbitrary == ArbitraryInit /\ [][ArbitraryNext]_vars

\* values made, mutated and unmutated
MutateInit == PoolsInit /\ \E m \in MutatedMutators : MutatorStart(m)

MutateNext ==
    \/ DoOrderedArbitrary /\ UNCHANGED <<uvp_vars, tfp_vars, sensor_vars, rec_vars, bitset_vars>>
    \/ DoRandomArbitrary /\ UNCHANGED <<uvp_vars, tfp_vars, sensor_vars, rec_vars, bitset_vars>>
    \/ DoValidateValue /\ UNCHANGED <<uvp_vars, tfp_vars, sensor_vars, rec_vars, bitset_vars>>
    \/ DoOrderedMutate /\ UNCHANGED <<uvp_vars, tfp_vars, sensor_vars, rec_vars, bitset_vars>>
    \/ DoRandomMutate /\ UNCHANGED <<uvp_vars, tfp_vars, sensor_vars, rec_vars, bitset_vars>>
    \/ DoCrossoverMutate /\ UNCHANGED <<uvp_vars, tfp_vars, sensor_vars, rec_vars, bitset_vars>>
    \/ DoUnmutate /\ UNCHANGED <<uvp_vars, tfp_vars, sensor_vars, rec_vars, bitset_vars>>

SpecMutate == MutateInit /\ [][MutateNext]_vars

\* the mutators whose validate_value is called: the ones above and
\* MapMutators whose inner mutator, a MapMutator, can reject a value
ValidatedMutators ==
    MutatedMutators
        \cup {MapMutatorNew(MapMutatorNew(m)) : m \in SmallMutators \cup ArbitraryMutators}

ValidateInit == PoolsInit /\ \E m \in ValidatedMutators : MutatorStart(m)

ValidateNext == DoValidateValue /\ UNCHANGED <<uvp_vars, tfp_vars, sensor_vars, rec_vars, bitset_vars>>

SpecValidate == ValidateInit /\ [][ValidateNext]_vars

\* the values a bound of a range of the type is given
BoundValues(ty) ==
    {TypeMin(ty), TypeMin(ty) + 1, 5, 6, TypeMax(ty) - 1, TypeMax(ty)}

\* the bounds of the ranges new is called with
Bounds(ty) ==
    {Unbounded} \cup {Included(b) : b \in BoundValues(ty)}
                \cup {Excluded(b) : b \in BoundValues(ty)}

\* let m = $name_mutator::new(range): the new mutator replaces the one held,
\* unless new panics
DoNew ==
    /\ mcall.op = "new" => ~mcall.result.panicked
    /\ \E ty \in IntTypes : \E start_bound \in Bounds(ty) : \E end_bound \in Bounds(ty) :
          LET m == IntNew(ty, start_bound, end_bound)
          IN  /\ mcall' = [op |-> "new", ty |-> ty, start_bound |-> start_bound,
                           end_bound |-> end_bound, result |-> m]
              /\ mutator' = IF m.panicked THEN mutator ELSE m
              /\ mstate' = [cur |-> None, step |-> INITIAL_MUTATION_STEP,
                            arb_step |-> IF m.panicked THEN mstate.arb_step
                                         ELSE DefaultArbitraryStep(m),
                            token |-> None]
              /\ UNCHANGED mhist

NewNext == DoNew /\ UNCHANGED <<uvp_vars, tfp_vars, sensor_vars, rec_vars, bitset_vars>>

SpecNew == Init /\ [][NewNext]_vars

\* the boxed mutators: BoxMutator over Box<T> and Box<M> over T
\* the mutators behind the points of recursion whose ordered_arbitrary is run
RecurToMutators ==
    {RecurToMutatorFrom(m) :
        m \in {WithinRangeNew("u8", 10, 12), WithinRangeNew("i8", -2, 3),
               WithinRangeNew("i8", TypeMin("i8"), TypeMax("i8")),
               WithinRangeNew("u64", TypeMax("u64") - 2, TypeMax("u64")),
               WithinRangeNew("i64", -1, 1)}}

RecurToInit == PoolsInit /\ \E m \in RecurToMutators : MutatorStart(m)

RecurToNext ==
    DoOrderedArbitrary /\ UNCHANGED <<uvp_vars, tfp_vars, sensor_vars, rec_vars, bitset_vars>>

SpecRecurTo == RecurToInit /\ [][RecurToNext]_vars

SensorFreeNext ==
    \/ FreeStartRecording /\ UNCHANGED <<uvp_vars, tfp_vars, mutator_vars, rec_vars, bitset_vars>>
    \/ FreeTestFails /\ UNCHANGED <<uvp_vars, tfp_vars, mutator_vars, rec_vars, bitset_vars>>
    \/ FreeStopRecording /\ UNCHANGED <<uvp_vars, tfp_vars, mutator_vars, rec_vars, bitset_vars>>
    \/ FreeGetObservations /\ UNCHANGED <<uvp_vars, tfp_vars, mutator_vars, rec_vars, bitset_vars>>

SpecSensorFree == Init /\ [][SensorFreeNext]_vars

\* the signed ranges: the ends of the type, zero and its neighbours
SignedBounds(ty) == {TypeMin(ty), -1, 0, 1, TypeMax(ty)}

\* the steps a mutator can be at before ordered_arbitrary returned None
StepsOf(m) ==
    0..(IF m.len_range + 1 < StepModulus THEN m.len_range + 1 ELSE StepModulus - 1)

\* the mutator after k values of ordered_arbitrary, validate_value of the
\* start of the range and k times ordered_mutate and unmutate
MutatorAt(m, k) ==
    LET vc == [value |-> m.start_range, cache |-> IntValidateValue(m, m.start_range).value]
    IN  /\ mutator = m
        /\ mstate = [cur |-> Some(vc), step |-> k, arb_step |-> k, token |-> None]
        /\ mcall = NoMutatorCall
        /\ mhist = [origin |-> "validate", original |-> Some(vc), n_ordered |-> k,
                    seen |-> {IntOrderedArbitrary(m, i, BITS(m.ty)).result.value.value :
                                i \in 0..(k - 1)},
                    n_some |-> k,
                    arb_exhausted |-> FALSE, mut_none |-> FALSE, mut_exhausted |-> FALSE]

SignedInit ==
    /\ PoolsInit
    /\ \E ty \in {"i8", "i64"} :
         \E start \in SignedBounds(ty), end \in SignedBounds(ty) :
            /\ start <= end
            /\ \E k \in StepsOf(WithinRangeNew(ty, start, end)) :
                  MutatorAt(WithinRangeNew(ty, start, end), k)

\* one operation from each of these states; the random operations are the
\* fallback of the ordered ones and follow their exhaustion
SignedNext ==
    \/ (mcall.op = "none" /\ DoOrderedArbitrary)
          /\ UNCHANGED <<uvp_vars, tfp_vars, sensor_vars, rec_vars, bitset_vars>>
    \/ (mcall.op = "none" /\ mstate.arb_step > mutator.len_range /\ DoRandomArbitrary)
          /\ UNCHANGED <<uvp_vars, tfp_vars, sensor_vars, rec_vars, bitset_vars>>
    \/ (mcall.op = "none" /\ DoOrderedMutate)
          /\ UNCHANGED <<uvp_vars, tfp_vars, sensor_vars, rec_vars, bitset_vars>>
    \/ (mcall.op = "none" /\ mstate.step > mutator.len_range /\ DoRandomMutate)
          /\ UNCHANGED <<uvp_vars, tfp_vars, sensor_vars, rec_vars, bitset_vars>>

SpecSigned == SignedInit /\ [][SignedNext]_vars

BoxMutators ==
    {BoxMutatorNew(m) : m \in SmallMutators} \cup {BoxedMutatorNew(m) : m \in SmallMutators}

BoxInit == PoolsInit /\ \E m \in BoxMutators : MutatorStart(m)

BoxNext ==
    \/ DoOrderedArbitrary /\ UNCHANGED <<uvp_vars, tfp_vars, sensor_vars, rec_vars, bitset_vars>>
    \/ DoRandomArbitrary /\ UNCHANGED <<uvp_vars, tfp_vars, sensor_vars, rec_vars, bitset_vars>>
    \/ DoValidateValue /\ UNCHANGED <<uvp_vars, tfp_vars, sensor_vars, rec_vars, bitset_vars>>
    \/ DoOrderedMutate /\ UNCHANGED <<uvp_vars, tfp_vars, sensor_vars, rec_vars, bitset_vars>>
    \/ DoRandomMutate /\ UNCHANGED <<uvp_vars, tfp_vars, sensor_vars, rec_vars, bitset_vars>>
    \/ DoUnmutate /\ UNCHANGED <<uvp_vars, tfp_vars, sensor_vars, rec_vars, bitset_vars>>

SpecBox == BoxInit /\ [][BoxNext]_vars

BitsetNext ==
    \/ DoWithCapacity /\ UNCHANGED <<uvp_vars, tfp_vars, sensor_vars, mutator_vars, rec_vars>>
    \/ DoGrow /\ UNCHANGED <<uvp_vars, tfp_vars, sensor_vars, mutator_vars, rec_vars>>
    \/ DoClear /\ UNCHANGED <<uvp_vars, tfp_vars, sensor_vars, mutator_vars, rec_vars>>
    \/ DoInsert /\ UNCHANGED <<uvp_vars, tfp_vars, sensor_vars, mutator_vars, rec_vars>>
    \/ DoPut /\ UNCHANGED <<uvp_vars, tfp_vars, sensor_vars, mutator_vars, rec_vars>>
    \/ DoToggle /\ UNCHANGED <<uvp_vars, tfp_vars, sensor_vars, mutator_vars, rec_vars>>
    \/ DoCountOnes /\ UNCHANGED <<uvp_vars, tfp_vars, sensor_vars, mutator_vars, rec_vars>>
    \/ DoOnes /\ UNCHANGED <<uvp_vars, tfp_vars, sensor_vars, mutator_vars, rec_vars>>
    \/ DoUnionWith /\ UNCHANGED <<uvp_vars, tfp_vars, sensor_vars, mutator_vars, rec_vars>>
    \/ DoIntersectWith /\ UNCHANGED <<uvp_vars, tfp_vars, sensor_vars, mutator_vars, rec_vars>>
    \/ DoDifferenceWith /\ UNCHANGED <<uvp_vars, tfp_vars, sensor_vars, mutator_vars, rec_vars>>
    \/ DoSymmetricDifferenceWith /\ UNCHANGED <<uvp_vars, tfp_vars, sensor_vars, mutator_vars, rec_vars>>
    \/ DoBitAnd /\ UNCHANGED <<uvp_vars, tfp_vars, sensor_vars, mutator_vars, rec_vars>>
    \/ DoBitOr /\ UNCHANGED <<uvp_vars, tfp_vars, sensor_vars, mutator_vars, rec_vars>>
    \/ DoBitXor /\ UNCHANGED <<uvp_vars, tfp_vars, sensor_vars, mutator_vars, rec_vars>>

SpecBitset == Init /\ [][BitsetNext]_vars

\* the life of a RecursiveMutator
RecursiveNext ==
    \/ RecursiveNewBegin /\ UNCHANGED <<uvp_vars, tfp_vars, sensor_vars, mutator_vars, bitset_vars>>
    \/ RecurToFrom /\ UNCHANGED <<uvp_vars, tfp_vars, sensor_vars, mutator_vars, bitset_vars>>
    \/ RecurToCallInDataFn /\ UNCHANGED <<uvp_vars, tfp_vars, sensor_vars, mutator_vars, bitset_vars>>
    \/ RecursiveNewEnd /\ UNCHANGED <<uvp_vars, tfp_vars, sensor_vars, mutator_vars, bitset_vars>>
    \/ RecursiveCall /\ UNCHANGED <<uvp_vars, tfp_vars, sensor_vars, mutator_vars, bitset_vars>>
    \/ RecurToCall /\ UNCHANGED <<uvp_vars, tfp_vars, sensor_vars, mutator_vars, bitset_vars>>
    \/ RecurToReturn /\ UNCHANGED <<uvp_vars, tfp_vars, sensor_vars, mutator_vars, bitset_vars>>
    \/ RecursiveReturn /\ UNCHANGED <<uvp_vars, tfp_vars, sensor_vars, mutator_vars, bitset_vars>>
    \/ RecurToOutside /\ UNCHANGED <<uvp_vars, tfp_vars, sensor_vars, mutator_vars, bitset_vars>>
    \/ RecursiveDrop /\ UNCHANGED <<uvp_vars, tfp_vars, sensor_vars, mutator_vars, bitset_vars>>
    \/ RecurToOutsideCall /\ UNCHANGED <<uvp_vars, tfp_vars, sensor_vars, mutator_vars, bitset_vars>>

SpecRecursive == Init /\ [][RecursiveNext]_vars

(***************************************************************************)
(* Properties of UniqueValuesPool                                          *)
(***************************************************************************)
Min(S) == CHOOSE x \in S : \A y \in S : x <= y

HasCplx(pool, p) == p[2] \in DOMAIN pool.complexities[p[1]]
CplxOf(pool, p) == pool.complexities[p[1]][p[2]]
HasBest(pool, p) == p[2] \in DOMAIN pool.best_input_for_value[p[1]]
BestKey(pool, p) == pool.best_input_for_value[p[1]][p[2]]

\* the pairs whose best_input_for_value entry is the slab key k
BestPairsOf(pool, k) == {p \in Pairs : HasBest(pool, p) /\ BestKey(pool, p) = k}

\* the slab keys some best_input_for_value entry holds
ReferencedKeys(pool) == {BestKey(pool, p) : p \in {q \in Pairs : HasBest(pool, q)}}

\* the handles of the inputs stored in the pool
StoredHandles(pool) == {pool.inputs.storage[k].data : k \in SlabLive(pool.inputs)}

\* the last process call returned (it did not panic)
UvpReturned == ~uvp_call.panicked

\* C1: every process call returns, and then every (slot, key) ever observed
\* has a best_input_for_value entry that refers to a stored input, and the
\* complexity recorded for it is the minimum of the complexities it was
\* observed with.
C1_BestTracking ==
    /\ UvpReturned
    /\ \A p \in Pairs :
          uvp_seen[p] # {} =>
              /\ HasBest(uvp, p)
              /\ BestKey(uvp, p) \in SlabLive(uvp.inputs)
              /\ HasCplx(uvp, p)
              /\ CplxOf(uvp, p) = Min(uvp_seen[p])

\* C2: every process call returns, and then the stored inputs are exactly
\* the inputs some best_input_for_value entry refers to.
C2_StoredAreReferenced ==
    /\ UvpReturned
    /\ SlabLive(uvp.inputs) = ReferencedKeys(uvp)

\* C3: after a process call that returned, each stored input's score is the
\* size of its best_for_values set, that set is the set of the pairs whose
\* best_input_for_value entry points to the input, and no stored input has
\* an empty set.
C3_ScoreIsCardinality ==
    UvpReturned =>
        \A k \in SlabLive(uvp.inputs) :
            LET input == uvp.inputs.storage[k]
            IN  /\ input.score = Cardinality(input.best_for_values)
                /\ input.best_for_values = BestPairsOf(uvp, k)
                /\ input.best_for_values # {}

\* the last call observed pair p with a complexity strictly below the recorded one
Improves(p) ==
    /\ uvp_call.made
    /\ p \in Range(uvp_call.observations)
    /\ HasCplx(uvp_call.pre, p)
    /\ HasBest(uvp_call.pre, p)
    /\ CplxOf(uvp_call.pre, p) > uvp_call.complexity

\* C4: a call that observes a pair with a strictly lower complexity than the
\* recorded one returns, makes its input the best for the pair and evicts the
\* previous best if that was best for no other pair; a call whose pairs are
\* all recorded with the same complexity changes nothing and returns no delta.
C4_LowerComplexityWins ==
    /\ \A p \in Pairs :
          Improves(p) =>
              LET old == BestKey(uvp_call.pre, p)
              IN  /\ UvpReturned
                  /\ HasBest(uvp, p)
                  /\ BestKey(uvp, p) \in SlabLive(uvp.inputs)
                  /\ uvp.inputs.storage[BestKey(uvp, p)].data = uvp_call.input_id
                  /\ CplxOf(uvp, p) = uvp_call.complexity
                  /\ (BestPairsOf(uvp_call.pre, old) = {p} => old \notin SlabLive(uvp.inputs))
    /\ (/\ uvp_call.made
        /\ \A p \in Range(uvp_call.observations) :
              HasCplx(uvp_call.pre, p) /\ CplxOf(uvp_call.pre, p) = uvp_call.complexity)
       => (uvp = uvp_call.pre /\ uvp_call.deltas = <<>>)

\* no pair of the last call is new or strictly better than the recorded one
NothingNew ==
    \A p \in Range(uvp_call.observations) :
        HasCplx(uvp_call.pre, p) /\ CplxOf(uvp_call.pre, p) <= uvp_call.complexity

\* C5: a call with no new or strictly improved pair returns no delta and
\* leaves the pool unchanged; every other call returns exactly one delta with
\* the pool name as path, add set, and in remove the handles of the inputs
\* the call evicted, each once.
C5_DeltaShape ==
    uvp_call.made =>
        IF NothingNew
        THEN uvp_call.deltas = <<>> /\ uvp = uvp_call.pre
        ELSE /\ Len(uvp_call.deltas) = 1
             /\ LET delta == uvp_call.deltas[1]
                    evicted == StoredHandles(uvp_call.pre) \ StoredHandles(uvp)
                IN  /\ delta.path = <<UvpName>>
                    /\ delta.add = TRUE
                    /\ Range(delta.remove) = evicted
                    /\ Len(delta.remove) = Cardinality(evicted)

(***************************************************************************)
(* Properties of TestFailurePool                                           *)
(***************************************************************************)
Tiers(list) == list.inputs

\* C6: in every failure class the tier complexities strictly decrease with
\* the tier index, the last tier holds the least complexity processed for the
\* failure id, and the last tier holds at most 8 inputs.
C6_TiersStrictlyDecrease ==
    \A i \in DOMAIN tfp.inputs :
        LET tiers == Tiers(tfp.inputs[i])
        IN  /\ \A k \in 1 .. (Len(tiers) - 1) : tiers[k].cplx > tiers[k + 1].cplx
            /\ tiers # <<>>
            /\ Last(tiers).cplx = tfp_min[tfp.inputs[i].error.id]
            /\ Len(Last(tiers).inputs) <= 8

\* a class with several tiers whose last tier is full
C6_Witness ==
    \E i \in DOMAIN tfp.inputs :
        /\ Len(Tiers(tfp.inputs[i])) >= 2
        /\ Len(Last(Tiers(tfp.inputs[i])).inputs) = 8

\* the last call was process(Some(error)) for a class that exists, with the
\* complexity of its smallest tier, that tier not full, and no other class
\* with the display string of the error
EqualCplxWithRoom ==
    /\ tfp_call.op = "process"
    /\ tfp_call.observations.some
    /\ \E i \in DOMAIN tfp_call.pre.inputs :
          LET list == tfp_call.pre.inputs[i]
          IN  /\ list.error.id = tfp_call.observations.value.id
              /\ Last(Tiers(list)).cplx = tfp_call.complexity
              /\ Len(Last(Tiers(list)).inputs) < 8
              /\ \A j \in DOMAIN tfp_call.pre.inputs :
                    j # i => tfp_call.pre.inputs[j].error.display
                                 # tfp_call.observations.value.display

\* C7: such a call appends the input to the smallest tier of the class and
\* returns a delta.
C7_EqualCplxAppends ==
    EqualCplxWithRoom =>
        /\ Len(tfp_call.deltas) = 1
        /\ \E i \in DOMAIN tfp_call.pre.inputs :
              /\ tfp_call.pre.inputs[i].error.id = tfp_call.observations.value.id
              /\ Len(Tiers(tfp.inputs[i])) = Len(Tiers(tfp_call.pre.inputs[i]))
              /\ Last(Tiers(tfp.inputs[i])).inputs
                    = Append(Last(Tiers(tfp_call.pre.inputs[i])).inputs, tfp_call.input_idx)

\* the complexities of the model written with four decimals
CplxText(complexity) ==
    IF complexity = 1000000 THEN "10.0000" ELSE "7.5000"

IdText(id) == IF id = 1 THEN "1" ELSE "2"

\* C8: a process call stores its input exactly when it returns a delta; the
\* delta is then the only one, with path name/<error.id>/<complexity with 4
\* decimals>, add set and nothing to remove; and every handle a class held
\* before the call is still held by that class after it.
C8_DeltaAndNoRemoval ==
    tfp_call.op = "process" =>
        LET before == Range(TfpHandles(tfp_call.pre))
            after == Range(TfpHandles(tfp))
        IN  /\ tfp_call.deltas # <<>> =>
                  /\ tfp_call.observations.some
                  /\ tfp_call.deltas =
                        << [path |-> <<TfpName,
                                       IdText(tfp_call.observations.value.id),
                                       CplxText(tfp_call.complexity)>>,
                            add |-> TRUE,
                            remove |-> <<>>] >>
            /\ after = before \cup (IF tfp_call.deltas # <<>> THEN {tfp_call.input_idx} ELSE {})
            /\ Len(TfpHandles(tfp)) = Cardinality(after)
            /\ tfp_call.input_idx \notin before
            /\ \A i \in DOMAIN tfp_call.pre.inputs :
                  /\ i \in DOMAIN tfp.inputs
                  /\ tfp.inputs[i].error.id = tfp_call.pre.inputs[i].error.id
                  /\ Range(ClassHandles(tfp_call.pre.inputs[i]))
                        \subseteq Range(ClassHandles(tfp.inputs[i]))

\* an input stored in a second tier of complexity 7.50004
C8_Witness ==
    /\ tfp_call.op = "process"
    /\ tfp_call.deltas # <<>>
    /\ tfp_call.complexity = 750004
    /\ \E i \in DOMAIN tfp.inputs : Len(Tiers(tfp.inputs[i])) >= 2

\* C9: ranked_test_cases returns, for every class, the inputs of its last
\* tier, each once and with weight 1.0, and nothing else.
C9_RankedAreLastTiers ==
    tfp_call.op = "ranked_test_cases" =>
        LET lastTierInputs ==
                UNION {Range(Last(Tiers(tfp.inputs[i])).inputs) : i \in DOMAIN tfp.inputs}
        IN  /\ ~tfp_call.panicked
            /\ Range(tfp_call.ranked) = {<<h, 10>> : h \in lastTierInputs}
            /\ Len(tfp_call.ranked) = Cardinality(lastTierInputs)
            /\ \A i \in DOMAIN tfp.inputs :
                  \A k \in 1 .. (Len(Tiers(tfp.inputs[i])) - 1) :
                      \A h \in Range(Tiers(tfp.inputs[i])[k].inputs) :
                          \A r \in Range(tfp_call.ranked) : r[1] # h

\* ranked_test_cases called on two classes, one of them with several tiers
\* and several inputs in the last one
C9_Witness ==
    /\ tfp_call.op = "ranked_test_cases"
    /\ Len(tfp.inputs) = 2
    /\ \E i \in DOMAIN tfp.inputs :
          /\ Len(Tiers(tfp.inputs[i])) >= 2
          /\ Len(Last(Tiers(tfp.inputs[i])).inputs) >= 2

\* the class of the pool before the last call that has the id of the error, 0 if none
PreClass ==
    IF \E i \in DOMAIN tfp_call.pre.inputs :
           tfp_call.pre.inputs[i].error.id = tfp_call.observations.value.id
    THEN CHOOSE i \in DOMAIN tfp_call.pre.inputs :
           tfp_call.pre.inputs[i].error.id = tfp_call.observations.value.id
    ELSE 0

\* the last call is one the decision table ignores: no failure, or a failure
\* of an existing class with a greater complexity than its smallest tier, or
\* the same complexity when the tier is full or another class has the display
IgnoredCase ==
    \/ ~tfp_call.observations.some
    \/ /\ PreClass # 0
       /\ LET least == Last(Tiers(tfp_call.pre.inputs[PreClass]))
          IN  \/ tfp_call.complexity > least.cplx
              \/ /\ tfp_call.complexity = least.cplx
                 /\ \/ Len(least.inputs) >= 8
                    \/ \E j \in DOMAIN tfp_call.pre.inputs :
                          /\ j # PreClass
                          /\ tfp_call.pre.inputs[j].error.display
                                = tfp_call.observations.value.display

\* C10: process of a failure with a new id appends a class with the single
\* tier {complexity, [input]}; an ignored call leaves the pool unchanged and
\* returns no delta.
C10_NewClassOrIgnored ==
    tfp_call.op = "process" =>
        /\ (tfp_call.observations.some /\ PreClass = 0) =>
              tfp.inputs = Append(tfp_call.pre.inputs,
                                  [error |-> tfp_call.observations.value,
                                   inputs |-> << [cplx |-> tfp_call.complexity,
                                                  inputs |-> <<tfp_call.input_idx>>] >>])
        /\ IgnoredCase => (tfp = tfp_call.pre /\ tfp_call.deltas = <<>>)

\* a failure of an existing class with a greater complexity was processed
\* after a second class had been created
C10_Witness ==
    /\ tfp_call.op = "process"
    /\ tfp_call.observations.some
    /\ PreClass # 0
    /\ tfp_call.complexity > Last(Tiers(tfp_call.pre.inputs[PreClass])).cplx
    /\ Len(tfp.inputs) = 2

(***************************************************************************)
(* Properties of TestFailureSensor                                         *)
(***************************************************************************)
\* C11: the failure get_observations returns for a run was written to the
\* slot during that run, after its start_recording; a run in which the test
\* function did not fail returns None.
C11_SensorIsolation ==
    (sensor_run.pc = "idle" /\ sensor_run.got) =>
        /\ sensor_run.observed.some => sensor_run.observed_run = sensor_run.run
        /\ sensor_run.observed.some <=> sensor_run.failed

\* a run without failure, after a run with a failure, returned None
C11_Witness ==
    /\ sensor_run.pc = "idle"
    /\ sensor_run.got
    /\ sensor_run.run >= 2
    /\ ~sensor_run.failed
    /\ ~sensor_run.observed.some
    /\ TEST_FAILURE = None

(***************************************************************************)
(* Properties of the mutators                                              *)
(***************************************************************************)
MutateOps == {"ordered_mutate", "random_mutate", "crossover_mutate"}

\* the last call undid a mutation of a mutator of kind k
Unmutated(k) == mutator.kind = k /\ mcall.op = "unmutate"

\* C12: AndMapMutator: after a mutation that returned a token, unmutate with
\* that token restores the whole pair, To and From, and the cache.
C12_AndMapUnmutateRestoresPair ==
    Unmutated("andmap") => mstate.cur = mcall.before

\* C13: AndMapMutator: in every state reached by ordered_arbitrary,
\* random_arbitrary, the mutations and unmutate, the To of the pair is the
\* map of its From.
C13_AndMapToInSync ==
    (mutator.kind = "andmap" /\ mstate.cur.some /\ mhist.origin = "arbitrary") =>
        mstate.cur.value.value.to
            = AndMapFn(mstate.cur.value.value.from, mstate.cur.value.value.to)
C15_Witness ==
    /\ Unmutated("int")
    /\ mcall.mutated_by = "ordered_mutate"
    /\ mhist.n_ordered = 2
    /\ mcall.pre.cur # mstate.cur

\* C15: integer-within-range mutators: ordered_mutate and random_mutate
\* return the value before the mutation as the token, unmutate puts that
\* value back, and over several pairs of a mutation and its unmutate the
\* value is the first one again while the mutation step keeps advancing.
C15_IntTokenIsPriorValue ==
    mutator.kind = "int" =>
        /\ (mcall.op \in MutateOps /\ mcall.result.some) =>
              mcall.result.value.token = mcall.pre.cur.value.value
        /\ mcall.op = "unmutate" =>
              /\ mstate.cur = mcall.before
              /\ mstate.step = mcall.pre.step
        /\ (mstate.cur.some /\ ~mstate.token.some) =>
              /\ mstate.cur = mhist.original
              /\ mstate.step = mhist.n_ordered

ReturnsComplexity ==
    /\ mcall.op \in MutateOps \cup {"ordered_arbitrary", "random_arbitrary"}
    /\ mcall.result.some

\* a wrapped mutator returned a complexity from a mutation
C16_Witness ==
    /\ ReturnsComplexity
    /\ mutator.kind = "andmap"
    /\ mcall.op = "crossover_mutate"
    /\ mcall.result.value.cplx = 64

\* C16: integer-within-range, MapMutator and AndMapMutator: the complexity
\* that ordered_mutate, random_mutate, crossover_mutate, ordered_arbitrary
\* or random_arbitrary returns is the one that complexity returns on the
\* resulting value with its cache.
C16_ReturnedComplexityIsComplexity ==
    ReturnsComplexity =>
        mcall.result.value.cplx
            = Complexity(mutator, mstate.cur.value.value, mstate.cur.value.cache)

\* C17: integer-within-range mutators: validate_value(v) returns Some(cache)
\* exactly when start <= v <= end.
C17_ValidateValueTestsRange ==
    (mutator.kind = "int" /\ mcall.op = "validate_value") =>
        (mcall.result.some
            <=> (mutator.start_range <= mcall.value /\ mcall.value <= RangeEnd(mutator)))

\* C18: integer-within-range mutators, every range: ordered_arbitrary called
\* again and again from the default step with max_cplx >= BITS returns a
\* value of the range with complexity BITS len + 1 times, each value new,
\* and None from then on.
C18_OrderedArbitraryEnumerates ==
    (mutator.kind = "int" /\ mcall.op = "ordered_arbitrary"
        /\ mcall.max_cplx >= BITS(mutator.ty)) =>
        IF mcall.pre_n_some <= mutator.len_range
        THEN /\ mcall.result.some
             /\ mcall.result.value.value \notin mcall.pre_seen
             /\ mcall.result.value.value \in RngValues(mutator)
             /\ mcall.result.value.cplx = BITS(mutator.ty)
        ELSE ~mcall.result.some

\* ordered_arbitrary was called after it was exhausted
C19_Witness ==
    /\ mcall.op = "ordered_arbitrary"
    /\ mcall.pre_exhausted
    /\ mcall.max_cplx > MinComplexity(mutator)
    /\ mutator.len_range > 200

\* C19: integer-within-range mutators: once ordered_arbitrary has returned
\* None because the step is exhausted, every later call with that step
\* returns None, whatever max_cplx.
C19_ExhaustedArbitraryStaysNone ==
    (mcall.op = "ordered_arbitrary" /\ mcall.pre_exhausted) =>
        /\ ~mcall.result.some
        /\ mstate.arb_step = mcall.pre.arb_step

\* C20: integer mutators, alone or wrapped in a MapMutator or AndMapMutator:
\* after ordered_mutate has returned None for a step, every further
\* ordered_mutate with that step returns None, whatever max_cplx.
C20_NoneStaysNone ==
    (mcall.op = "ordered_mutate" /\ mcall.pre_none) => ~mcall.result.some

\* ordered_mutate was called on an exhausted step of a wrapped mutator
C20_Witness ==
    /\ mcall.op = "ordered_mutate"
    /\ mcall.pre_exhausted
    /\ mutator.kind = "map"
    /\ mcall.max_cplx > MinComplexity(mutator)

\* C20 as it holds: after ordered_mutate has returned None for a step when
\* max_cplx was at least the minimal complexity, every further
\* ordered_mutate with that step returns None, whatever max_cplx, and leaves
\* the step, the value and the cache as they are.
C20_ExhaustedMutateStaysNone ==
    (mcall.op = "ordered_mutate" /\ mcall.pre_exhausted) =>
        /\ ~mcall.result.some
        /\ mstate.step = mcall.pre.step
        /\ mstate.cur = mcall.pre.cur
\* the inner mutator rejected a value that parse accepted
C21_Witness ==
    /\ mutator.kind = "map"
    /\ mcall.op = "validate_value"
    /\ MapParse(mutator, mcall.value).some
    /\ ~mcall.result.some
    /\ mstate.cur.some

\* C21: MapMutator::validate_value on a To value returns None when parse
\* returns None and when the inner mutator rejects the parsed From value; it
\* returns Some(cache) only when both succeed, and the cache holds the parsed
\* From value and the inner cache for it.
C21_MapValidateValue ==
    (mutator.kind = "map" /\ mcall.op = "validate_value") =>
        LET parsed == MapParse(mutator, mcall.value)
            inner == IF parsed.some
                     THEN ValidateValue(mutator.mutator, parsed.value)
                     ELSE None
        IN  /\ mcall.result.some <=> (parsed.some /\ inner.some)
            /\ mcall.result.some =>
                  /\ mcall.result.value.from_value = parsed.value
                  /\ mcall.result.value.from_cache = inner.value
                  /\ MapFn(mcall.result.value.from_value) = mcall.value
                  /\ mstate.cur = Some([value |-> mcall.value, cache |-> mcall.result.value])

(***************************************************************************)
(* Properties of RecursiveMutator, BoxMutator and construction             *)
(***************************************************************************)
\* the deepest recursion of an operation that started at the RecursiveMutator
C22_Witness ==
    /\ rec.origin = "RecursiveMutator"
    /\ rec.depth = MaxRecursion
    /\ rec.method = "ordered_arbitrary"
    /\ ~rec.panicked

\* C22: in an operation that starts at a constructed, live RecursiveMutator
\* every upgrade made by a RecurToMutator succeeds: no such operation panics,
\* and the RecursiveMutator's own handle is there beside the upgraded ones.
C22_UpgradeSucceeds ==
    rec.origin = "RecursiveMutator" =>
        /\ ~rec.panicked
        /\ rec.phase = "alive"
        /\ rec.strong = rec.depth + 1
\* the T behind the value of a boxed mutator
Unboxed(v) == IF mutator.kind = "box" THEN Deref(v) ELSE v

\* the value and cache of an Option of a value with its cache, unboxed
UnboxedCur(cur) == [value |-> Unboxed(cur.value.value), cache |-> cur.value.cache]

\* a BoxMutator undid an ordered mutation
C23_Witness ==
    /\ mutator.kind = "box"
    /\ mcall.op = "unmutate"
    /\ mcall.mutated_by = "ordered_mutate"
    /\ mcall.pre.cur # mstate.cur
    /\ mhist.n_ordered = 2

\* C23: BoxMutator (and Box<M>) passes every operation through: the step
\* after the call, the token, the complexity and the Some/None outcome are
\* those of the same operation of M on the T in the box, and the value in the
\* box after the call is the value M leaves.
C23_BoxIsPassThrough ==
    LET inner == mutator.mutator
        pre == mcall.pre
    IN  mutator.kind \in {"box", "boxm"} =>
          /\ DefaultArbitraryStep(mutator) = IntDefaultArbitraryStep(inner)
          /\ MinComplexity(mutator) = IntMinComplexity(inner)
          /\ MaxComplexity(mutator) = IntMaxComplexity(inner)
          /\ mstate.cur.some =>
                Complexity(mutator, mstate.cur.value.value, mstate.cur.value.cache)
                    = IntComplexity(inner, Unboxed(mstate.cur.value.value), mstate.cur.value.cache)
          /\ mcall.op = "validate_value" =>
                mcall.result = IntValidateValue(inner, Unboxed(mcall.value))
          /\ mcall.op = "ordered_arbitrary" =>
                LET r == IntOrderedArbitrary(inner, pre.arb_step, mcall.max_cplx)
                IN  /\ mstate.arb_step = r.step
                    /\ mcall.result.some = r.result.some
                    /\ r.result.some =>
                          /\ Unboxed(mcall.result.value.value) = r.result.value.value
                          /\ mcall.result.value.cplx = r.result.value.cplx
                          /\ UnboxedCur(mstate.cur)
                                = [value |-> r.result.value.value, cache |-> r.result.value.cache]
          /\ mcall.op = "random_arbitrary" =>
                LET r == IntRandomArbitrary(inner, mcall.max_cplx,
                                            Unboxed(mcall.result.value.value))
                IN  /\ Unboxed(mcall.result.value.value) \in RngValues(inner)
                    /\ mcall.result.value.cplx = r.cplx
                    /\ UnboxedCur(mstate.cur) = [value |-> r.value, cache |-> r.cache]
          /\ mcall.op = "ordered_mutate" =>
                LET r == IntOrderedMutate(inner, Unboxed(pre.cur.value.value),
                                          pre.cur.value.cache, pre.step, mcall.max_cplx)
                IN  /\ mstate.step = r.step
                    /\ mcall.result = r.result
                    /\ UnboxedCur(mstate.cur) = [value |-> r.value, cache |-> r.cache]
          /\ mcall.op = "random_mutate" =>
                LET r == IntRandomMutate(inner, Unboxed(pre.cur.value.value),
                                         pre.cur.value.cache, mcall.max_cplx,
                                         Unboxed(mstate.cur.value.value))
                IN  /\ Unboxed(mstate.cur.value.value) \in RngValues(inner)
                    /\ mcall.result.value = r.result
                    /\ mstate.step = pre.step
                    /\ UnboxedCur(mstate.cur) = [value |-> r.value, cache |-> r.cache]
          /\ mcall.op = "unmutate" =>
                LET r == IntUnmutate(inner, Unboxed(pre.cur.value.value),
                                     pre.cur.value.cache, mcall.token)
                IN  /\ mstate.step = pre.step
                    /\ UnboxedCur(mstate.cur) = [value |-> r.value, cache |-> r.cache]
\* the start a range resolves to, as an integer
C24_Start(ty, start_bound) ==
    CASE start_bound.bound = "Included" -> start_bound.b
      [] start_bound.bound = "Excluded" -> start_bound.b + 1
      [] start_bound.bound = "Unbounded" -> TypeMin(ty)

\* the end a range resolves to, as an integer
C24_End(ty, end_bound) ==
    CASE end_bound.bound = "Included" -> end_bound.b
      [] end_bound.bound = "Excluded" -> end_bound.b - 1
      [] end_bound.bound = "Unbounded" -> TypeMax(ty)

\* new was given a signed range with both ends excluded that is longer
\* than the signed type's MAX
C24_Witness ==
    /\ mcall.op = "new"
    /\ ~mcall.result.panicked
    /\ mcall.ty = "i8"
    /\ mcall.start_bound.bound = "Excluded"
    /\ mcall.end_bound.bound = "Excluded"
    /\ mcall.result.len_range > TypeMax("i8")
    /\ mutator = mcall.result

\* C24: new panics when the resolved start is greater than the resolved end
\* (5..5 is one such range), when an excluded end is MIN and when an excluded
\* start is MAX; in every other case start_range is the resolved start and
\* len_range is end - start, an unsigned value.
C24_NewPanicsOrResolves ==
    mcall.op = "new" =>
        LET ty == mcall.ty
            start == C24_Start(ty, mcall.start_bound)
            end == C24_End(ty, mcall.end_bound)
            must_panic ==
                \/ start > end
                \/ mcall.end_bound = Excluded(TypeMin(ty))
                \/ mcall.start_bound = Excluded(TypeMax(ty))
        IN  /\ mcall.result.panicked = must_panic
            /\ (mcall.start_bound = Included(5) /\ mcall.end_bound = Excluded(5)) =>
                    mcall.result.panicked
            /\ ~must_panic =>
                  /\ mcall.result.start_range = start
                  /\ mcall.result.len_range = end - start
                  /\ mcall.result.len_range \in 0..(Modulus(ty) - 1)
(***************************************************************************)
(* Properties of FixedBitSet                                               *)
(***************************************************************************)
\* every index of a block a set of the model can have
AllIndices == 0..(Blocks(MaxBits) * BlockBits - 1)

\* the indices contains() is true for
SetBits(s) == {b \in AllIndices : Contains(s, b)}

\* the sequence is strictly ascending
Ascending(seq) == \A i \in 1..Len(seq) : \A j \in 1..Len(seq) : i < j => seq[i] < seq[j]

C26_Witness ==
    /\ bitset_call.op = "grow"
    /\ bitset_call.bit > bitset_call.pre.length
    /\ Len(bitsets[bitset_call.target].data) > Len(bitset_call.pre.data)
    /\ Contains(bitset_call.pre, BlockBits)

\* C26: grow(bits) with bits > length sets the length to bits, keeps every
\* bit and leaves the new bits zero; with bits <= length it changes nothing.
C26_Grow ==
    bitset_call.op = "grow" =>
        LET pre == bitset_call.pre
            post == bitsets[bitset_call.target]
            bits == bitset_call.bit
        IN  IF bits > pre.length
            THEN /\ post.length = bits
                 /\ \A b \in AllIndices :
                        Contains(post, b) = (b < pre.length /\ Contains(pre, b))
            ELSE post = pre

\* intersect_with a set of fewer blocks, with a bit in both sets and a bit
\* of self past the end of the other
C27_Witness ==
    /\ bitset_call.op = "intersect_with"
    /\ Len(bitset_call.pre.data) > Len(bitsets[Other(bitset_call.target)].data)
    /\ Contains(bitset_call.pre, MaxBits - 1)
    /\ Contains(bitsets[bitset_call.target], 0)

\* C27: intersect_with leaves the length of self as it was; afterwards a bit
\* is set exactly when both sets had it, and the blocks of self past the
\* last block of other are zero.
C27_IntersectWith ==
    bitset_call.op = "intersect_with" =>
        LET pre == bitset_call.pre
            post == bitsets[bitset_call.target]
            other == bitsets[Other(bitset_call.target)]
        IN  /\ post.length = pre.length
            /\ Len(post.data) = Len(pre.data)
            /\ \A b \in AllIndices :
                    Contains(post, b) = (Contains(pre, b) /\ Contains(other, b))
            /\ \A k \in 1..Len(post.data) : k > Len(other.data) => post.data[k] = {}

\* insert was called with an index past the length, inside the last block
C28_Witness ==
    /\ bitset_call.op = "insert"
    /\ bitset_call.bit >= bitset_call.pre.length
    /\ bitset_call.bit < Len(bitset_call.pre.data) * BlockBits
    /\ bitset_call.panicked

\* C28: insert, put and toggle panic for every index >= length, also one
\* inside the last allocated block, and leave the set as it was; for an
\* index < length put returns the previous value of the bit and leaves it set.
C28_IndexChecked ==
    bitset_call.op \in {"insert", "put", "toggle"} =>
        LET pre == bitset_call.pre
            post == bitsets[bitset_call.target]
            bit == bitset_call.bit
        IN  /\ bitset_call.panicked = (bit >= pre.length)
            /\ bitset_call.panicked => post = pre
            /\ (~bitset_call.panicked /\ bitset_call.op = "put") =>
                  /\ bitset_call.result = Some(Contains(pre, bit))
                  /\ Contains(post, bit)

\* &a & &b gave a set shorter than b, which has a bit past its end
C29_Witness ==
    /\ bitset_call.op = "bitand"
    /\ bitsets[bitset_call.target].length < bitsets[Other(bitset_call.target)].length
    /\ Len(bitsets[bitset_call.target].data) < Len(bitsets[Other(bitset_call.target)].data)
    /\ Contains(bitsets[Other(bitset_call.target)], MaxBits - 1)
    /\ Contains(bitsets[bitset_call.target], 0)

\* C29: whatever was called, contains(b) is false for every b >= len() and
\* the number of blocks is ceil(len() / 64).
C29_LengthBoundsTheBits ==
    \A t \in Sets :
        /\ \A b \in AllIndices : b >= BitsetLen(bitsets[t]) => ~Contains(bitsets[t], b)
        /\ ~Contains(bitsets[t], Len(bitsets[t].data) * BlockBits)
        /\ Len(bitsets[t].data) = (BitsetLen(bitsets[t]) + 63) \div 64
FromOf(vc) ==
    IF mutator.kind = "map"
    THEN [value |-> vc.cache.from_value, cache |-> vc.cache.from_cache]
    ELSE [value |-> vc.value.from, cache |-> vc.cache]

\* an AndMapMutator returned the token and complexity of an ordered mutation
\* after the first one
C32_Witness ==
    /\ mutator.kind = "andmap"
    /\ mcall.op = "ordered_mutate"
    /\ mcall.result.some
    /\ mcall.pre.step > 0
    /\ mcall.result.value.token # FromOf(mstate.cur.value).value

\* C32: MapMutator and AndMapMutator add no mutation state: every mutation
\* and arbitrary call returns the token and complexity of the inner mutator,
\* advances the step as the inner mutator does, returns None exactly when it
\* does; min, max and global complexity are the inner ones and unmutate hands
\* its token to the inner mutator unchanged.
C32_MapForwardsToInner ==
    LET inner == mutator.mutator
        pre == mcall.pre
    IN  mutator.kind \in {"map", "andmap"} =>
          /\ DefaultArbitraryStep(mutator) = IntDefaultArbitraryStep(inner)
          /\ MinComplexity(mutator) = IntMinComplexity(inner)
          /\ MaxComplexity(mutator) = IntMaxComplexity(inner)
          /\ IF mutator.kind = "map"
             THEN MapGlobalSearchSpaceComplexity(mutator) = IntGlobalSearchSpaceComplexity(inner)
             ELSE AndMapGlobalSearchSpaceComplexity(mutator) = IntGlobalSearchSpaceComplexity(inner)
          /\ mstate.cur.some =>
                Complexity(mutator, mstate.cur.value.value, mstate.cur.value.cache)
                    = IntComplexity(inner, FromOf(mstate.cur.value).value,
                                    FromOf(mstate.cur.value).cache)
          /\ mcall.op = "ordered_arbitrary" =>
                LET r == IntOrderedArbitrary(inner, pre.arb_step, mcall.max_cplx)
                IN  /\ mstate.arb_step = r.step
                    /\ mcall.result.some = r.result.some
                    /\ r.result.some =>
                          /\ mcall.result.value.cplx = r.result.value.cplx
                          /\ FromOf(mstate.cur.value) =
                                [value |-> r.result.value.value, cache |-> r.result.value.cache]
          /\ mcall.op = "random_arbitrary" =>
                LET r == IntRandomArbitrary(inner, mcall.max_cplx,
                                            FromOf(mstate.cur.value).value)
                IN  /\ FromOf(mstate.cur.value).value \in RngValues(inner)
                    /\ mcall.result.value.cplx = r.cplx
                    /\ FromOf(mstate.cur.value).cache = r.cache
          /\ mcall.op = "ordered_mutate" =>
                LET from == FromOf(pre.cur.value)
                    r == IntOrderedMutate(inner, from.value, from.cache, pre.step,
                                          mcall.max_cplx)
                IN  /\ mstate.step = r.step
                    /\ mcall.result = r.result
                    /\ FromOf(mstate.cur.value) = [value |-> r.value, cache |-> r.cache]
          /\ mcall.op \in {"random_mutate", "crossover_mutate"} =>
                LET from == FromOf(pre.cur.value)
                    r == IntRandomMutate(inner, from.value, from.cache, mcall.max_cplx,
                                         FromOf(mstate.cur.value).value)
                IN  /\ FromOf(mstate.cur.value).value \in RngValues(inner)
                    /\ mcall.result.value = r.result
                    /\ mstate.step = pre.step
                    /\ FromOf(mstate.cur.value) = [value |-> r.value, cache |-> r.cache]
          /\ mcall.op = "unmutate" =>
                LET from == FromOf(pre.cur.value)
                    r == IntUnmutate(inner, from.value, from.cache, mcall.token)
                IN  /\ mstate.step = pre.step
                    /\ FromOf(mstate.cur.value) = [value |-> r.value, cache |-> r.cache]
\* the first call of a RecurToMutator returned None and a later call a value
C33_Witness ==
    /\ mutator.kind = "recurto"
    /\ mcall.op = "ordered_arbitrary"
    /\ mcall.result.some
    /\ mcall.pre.arb_step = Initialized(IntDefaultArbitraryStep(mutator.mutator))
    /\ mhist.n_some = 1

\* C33: the arbitrary step of RecurToMutator starts as Default; the first
\* ordered_arbitrary runs the inner ordered_arbitrary on the inner default
\* step and stores the advanced step as Initialized, also when the result is
\* None; later calls advance that inner step and the step is never Default
\* again, so the results are those of the inner mutator from its default step.
C33_RecurToArbitraryStep ==
    mutator.kind = "recurto" =>
        LET inner == mutator.mutator
        IN  /\ mcall.op = "none" => mstate.arb_step = Default
            /\ mcall.op = "ordered_arbitrary" =>
                  LET inner_pre ==
                          IF mcall.pre.arb_step.tag = "Default"
                          THEN IntDefaultArbitraryStep(inner)
                          ELSE mcall.pre.arb_step.inner_step
                      r == IntOrderedArbitrary(inner, inner_pre, mcall.max_cplx)
                  IN  /\ mstate.arb_step = Initialized(r.step)
                      /\ mstate.arb_step.tag # "Default"
                      /\ mcall.result = r.result
                      /\ mstate.arb_step.inner_step =
                            StepWrappingAdd(IntDefaultArbitraryStep(inner), mhist.n_some)
                      /\ mcall.result.some =>
                            mcall.result.value.value =
                                IntOrderedArbitrary(inner, mcall.pre_n_some,
                                                    mcall.max_cplx).result.value.value
\* crossover_mutate, with a budget below min_complexity and a provider that
\* holds a value of the type, left another value
C34_Witness ==
    /\ mutator.kind = "int"
    /\ mcall.op = "crossover_mutate"
    /\ mcall.max_cplx < IntMinComplexity(mutator)
    /\ mcall.subvalue_provider # <<>>
    /\ mstate.cur.value.value # mcall.subvalue_provider[1]
    /\ mstate.cur.value.value # mcall.pre.cur.value.value

\* C34: crossover_mutate of an integer-within-range mutator is random_mutate
\* whatever the provider holds: the value becomes a value of [start, end],
\* the token is the value before and the complexity is BITS; random_mutate
\* and random_arbitrary return a result also when max_cplx is below
\* min_complexity.
C34_CrossoverIsRandomMutate ==
    mutator.kind = "int" =>
        /\ mcall.op = "crossover_mutate" => mstate.cur.value.value = mcall.rnd
        /\ mcall.op \in {"crossover_mutate", "random_mutate"} =>
              LET pre == mcall.pre.cur.value
                  r == IntRandomMutate(mutator, pre.value, pre.cache, mcall.max_cplx,
                                       mstate.cur.value.value)
              IN  /\ mcall.result.some
                  /\ mcall.result.value = r.result
                  /\ mstate.cur.value = [value |-> r.value, cache |-> r.cache]
                  /\ mstate.step = mcall.pre.step
                  /\ mstate.cur.value.value >= mutator.start_range
                  /\ mstate.cur.value.value <= mutator.start_range + mutator.len_range
                  /\ mcall.result.value.token = pre.value
                  /\ mcall.result.value.cplx = BITS(mutator.ty)
        /\ mcall.op = "random_arbitrary" =>
              /\ mcall.result.some
              /\ mcall.result.value.value >= mutator.start_range
              /\ mcall.result.value.value <= mutator.start_range + mutator.len_range
              /\ mcall.result.value.cplx = BITS(mutator.ty)
ProcessedIds == {id \in TfpIds : tfp_min[id] # 0}

\* a failure of a known id with another display string was stored, with two
\* classes in the pool
C36_Witness ==
    /\ tfp_call.op = "process"
    /\ tfp_call.observations.some
    /\ tfp_call.deltas # <<>>
    /\ Len(tfp.inputs) = 2
    /\ \E i \in DOMAIN tfp.inputs :
          /\ tfp.inputs[i].error.id = tfp_call.observations.value.id
          /\ tfp.inputs[i].error.display # tfp_call.observations.value.display
          /\ Len(tfp.inputs[i].inputs) > 1

\* C36: in TestFailurePool, after any sequence of process calls, no two
\* classes have the same failure id, every class has a tier and every tier an
\* input (ranked_test_cases never indexes an empty list), stats().count is
\* the number of distinct failure ids processed, and a class keeps the
\* display string of the failure that created it.
C36_TfpClasses ==
    /\ \A i, j \in DOMAIN tfp.inputs :
          i # j => tfp.inputs[i].error.id # tfp.inputs[j].error.id
    /\ \A i \in DOMAIN tfp.inputs :
          /\ Len(tfp.inputs[i].inputs) >= 1
          /\ \A k \in DOMAIN tfp.inputs[i].inputs : Len(tfp.inputs[i].inputs[k].inputs) >= 1
    /\ tfp_call.op = "ranked_test_cases" => ~tfp_call.panicked
    /\ TfpStats(tfp).count = Cardinality(ProcessedIds)
    /\ tfp_call.op = "process" =>
          /\ Len(tfp.inputs) >= Len(tfp_call.pre.inputs)
          /\ \A i \in DOMAIN tfp_call.pre.inputs :
                tfp.inputs[i].error = tfp_call.pre.inputs[i].error
          /\ Len(tfp.inputs) > Len(tfp_call.pre.inputs) =>
                /\ Len(tfp.inputs) = Len(tfp_call.pre.inputs) + 1
                /\ Last(tfp.inputs).error = tfp_call.observations.value
\* one failure was returned by two get_observations: stop_recording ran
\* again without a start_recording in between
C37_Witness ==
    /\ sensor_run.pc = "free"
    /\ sensor_run.op = "get_observations"
    /\ sensor_run.result.some
    /\ sensor_run.delivered = 2
    /\ sensor_run.result = TEST_FAILURE

\* C37: after stop_recording the first get_observations returns the failure
\* copied from the slot and resets the sensor's error, so a get_observations
\* with no stop_recording since the one before returns None; stop_recording
\* leaves the slot as it is and copies it, also when it runs a second time
\* without a start_recording.
C37_DeliveredOncePerStop ==
    sensor_run.pc = "free" =>
        /\ sensor_run.op = "get_observations" =>
              /\ sensor.error = None
              /\ TEST_FAILURE = sensor_run.pre.slot
              /\ sensor_run.result = sensor_run.pre.error
              /\ ~sensor_run.pre.stopped => sensor_run.result = None
        /\ sensor_run.op = "stop_recording" =>
              /\ TEST_FAILURE = sensor_run.pre.slot
              /\ sensor.error = sensor_run.pre.slot
        /\ (~sensor_run.stopped) => sensor.error = None
(***************************************************************************)
(* Further properties of the integer-within-range mutators                 *)
(***************************************************************************)
\* ordered_mutate of a MapMutator returned None with a budget that is large
\* enough: the step of the inner mutator is exhausted
C38_Witness ==
    /\ mutator.kind = "map"
    /\ mcall.op = "ordered_mutate"
    /\ ~mcall.result.some
    /\ mcall.max_cplx >= MinComplexity(mutator)
    /\ mhist.n_ordered > 0
    /\ mstate.cur.some

\* C38: when ordered_arbitrary or ordered_mutate of an integer-within-range
\* mutator, a MapMutator or an AndMapMutator returns None, the arbitrary step,
\* the mutation step, the value and the cache are as they were before the call.
C38_NoneLeavesStateAlone ==
    (/\ mutator.kind \in {"int", "map", "andmap"}
     /\ mcall.op \in {"ordered_arbitrary", "ordered_mutate"}
     /\ ~mcall.result.some)
        => /\ mstate.arb_step = mcall.pre.arb_step
           /\ mstate.step = mcall.pre.step
           /\ mstate.cur = mcall.pre.cur
           /\ mstate.token = None
\* the end of the range the mutator was made with
SignedEnd ==
    CHOOSE end \in SignedBounds(mutator.ty) :
        WithinRangeNew(mutator.ty, mutator.start_range, end) = mutator

\* the value the last operation produced
Produced ==
    IF mcall.op \in {"ordered_arbitrary", "random_arbitrary"}
    THEN mcall.result.value.value
    ELSE mstate.cur.value.value

\* ordered_mutate of the i8 mutator of MIN..=MAX left a positive value
C39_Witness ==
    /\ mutator.ty = "i8"
    /\ mutator.start_range = TypeMin("i8")
    /\ SignedEnd = TypeMax("i8")
    /\ mcall.op = "ordered_mutate"
    /\ mcall.result.some
    /\ Produced > 0

\* C39: for a signed within-range mutator made with start <= end,
\* start.wrapping_add(len_range as $name) is end, and every value that
\* ordered_arbitrary, ordered_mutate, random_arbitrary and random_mutate produce
\* lies in [start, end].
C39_SignedValuesInRange ==
    (mutator.kind = "int" /\ Signed(mutator.ty)) =>
        LET end == SignedEnd
        IN  /\ RangeEnd(mutator) = end
            /\ RngValues(mutator) = mutator.start_range..end
            /\ (/\ mcall.op \in {"ordered_arbitrary", "ordered_mutate",
                                 "random_arbitrary", "random_mutate"}
                /\ mcall.result.some)
                  => /\ Produced >= mutator.start_range
                     /\ Produced <= end

====
